---- MODULE Spec2Model ----
(***************************************************************************)
(* Authoritative-zone lifecycle core of knot: src/knot/server/zones.c.     *)
(*                                                                         *)
(* The module holds several specifications over one set of variables:      *)
(*   SpecSer   changeset serialization / parsing (pure functions)          *)
(*   SpecLoad  zones_load_changesets over bounded journal contents         *)
(*   SpecUpd   the journaling operations: DDNS update, IXFR/DNSSEC apply,  *)
(*             reload diff and sign, zonefile flush                        *)
(*   SpecRcu   readers of the zone database and the zone contents against  *)
(*             the expire handler and the reconfiguration hook             *)
(*   SpecXfr   SOA responses, refresh scheduling and the transfer queue    *)
(*   SpecEv    the REFRESH and EXPIRE timer handlers of the scheduler      *)
(*             thread against a worker thread                              *)
(*   SpecEvFair  SpecEv with fair scheduling of the threads                *)
(*   SpecSign  the choice between a full resign and signing the changeset  *)
(*             of a DNS UPDATE                                             *)
(*   SpecSerial, SpecJitter, SpecKey  serial arithmetic, timer jitter and  *)
(*             the journal key of a changeset                              *)
(*   SpecDnssec, SpecDnssecEv  planning of the DNSSEC resign event and its *)
(*             timer handler                                               *)
(*   SpecRetain  the retain count of the journal                           *)
(*   SpecCname, SpecCheck, SpecDump  the zone dump of zone-dump.c          *)
(*   SpecNotify  zones_schedule_notify over the notify_out list            *)
(*   SpecFlush  the flush timer handler of a zone                          *)
(*   SpecMerge  zones_merge_and_store_changesets                           *)
(*   SpecFake  the fake zone of zones_process_update_auth                  *)
(* Variables that a specification does not use keep their initial value.   *)
(***************************************************************************)
EXTENDS Integers, Sequences, FiniteSets, TLC

VARIABLES
    cs,         \* SpecSer: the changeset handed to the serializer
    parsed,     \* SpecSer: result of parsing the bytes written for cs
    jnodes,     \* SpecLoad: the journal nodes, in journal order
    ld,         \* SpecLoad: last call of zones_load_changesets
    conf,       \* SpecUpd: zone->conf (dnssec_enable, dbsync_timeout, ...)
    contents,   \* SpecUpd: SOA serial of zone->contents, 0 for NULL
    journal,    \* SpecUpd: nodes of zone->ixfr_db
    zonefile_serial,    \* SpecUpd: zone->zonefile_serial
    zonefile_mtime,     \* SpecUpd: zone->zonefile_mtime
    ixfr_dbsync,        \* SpecUpd: zone->ixfr_dbsync, the flush event
    op,         \* SpecUpd: the journaling operation in progress / last finished
    syncs,      \* SpecUpd: the zones_zonefile_sync calls since contents changed
    zone_db,        \* SpecRcu: nameserver->zone_db, the published database
    zone_contents,  \* SpecRcu: zone->contents, the published snapshot, 0 = NULL
    freed,          \* SpecRcu: the databases and snapshots freed so far
    readers,        \* SpecRcu: the threads that read under rcu_read_lock
    expire_ev,      \* SpecRcu: the run of zones_expire_ev
    conf_hook,      \* SpecRcu: the run of zones_ns_conf_hook
    zone,           \* SpecXfr: contents, SOA timers, ixfr_db of the zone
    xfr_in,         \* SpecXfr: zone->xfr_in (state, has_master, timer, expire)
    lock,           \* SpecXfr: the owner of zone->lock, 0 when free
    xfr_queue,      \* SpecXfr: the tasks handed to xfr_enqueue, in order
    thr,            \* SpecXfr: the calls the worker threads are in
    ev,             \* SpecEv: the timer handler the scheduler thread runs
    apex,           \* SpecSign: apex DNSKEY / NSEC3PARAM, old and new contents
    signing,        \* SpecSign: the signing zones_process_update_auth did
    num,            \* SpecSerial, SpecJitter, SpecKey, SpecNotify, SpecFlush,
                    \* SpecMerge, SpecFake: one call of a
                    \* function
    dnssec,         \* SpecDnssec, SpecDnssecEv: zone->dnssec_timer, the
                    \* clock, the last call
    jr,             \* SpecRetain: the retain count of zone->ixfr_db and the
                    \* operation that uses the journal
    zdump           \* SpecCname, SpecCheck, SpecDump: a zone and its dump

serVars  == <<cs, parsed>>
loadVars == <<jnodes, ld>>
updVars  == <<conf, contents, journal, zonefile_serial, zonefile_mtime,
              ixfr_dbsync, op, syncs>>
rcuVars  == <<zone_db, zone_contents, freed, readers, expire_ev, conf_hook>>
xfrVars  == <<zone, xfr_in, lock, xfr_queue, thr, ev>>
signVars == <<apex, signing>>
numVars  == <<num>>
\* the variables of the specifications that share no action with the others
restVars == <<numVars, dnssec, jr, zdump>>
coreVars == <<serVars, loadVars, updVars, rcuVars, xfrVars, signVars>>
notNumVars    == <<coreVars, dnssec, jr, zdump>>
notDnssecVars == <<coreVars, numVars, jr, zdump>>
notRetainVars == <<coreVars, numVars, dnssec, zdump>>
notDumpVars   == <<coreVars, numVars, dnssec, jr>>
notUpdVars == <<serVars, loadVars, rcuVars, xfrVars, signVars, restVars>>
notRcuVars == <<serVars, loadVars, updVars, xfrVars, signVars, restVars>>
notXfrVars == <<serVars, loadVars, updVars, rcuVars, signVars, restVars>>
vars     == <<cs, parsed, jnodes, ld, conf, contents, journal,
              zonefile_serial, zonefile_mtime, ixfr_dbsync, op, syncs,
              zone_db, zone_contents, freed, readers, expire_ev, conf_hook,
              zone, xfr_in, lock, xfr_queue, thr, ev, apex, signing, num,
              dnssec, jr, zdump>>

NULL == "NULL"
\* A missing RRSet (NULL pointer) and a parse result not yet produced.
NoRR     == [type |-> "none", val |-> 0]

\* ---------------------------------------------------------------------
\* Bounds
\* ---------------------------------------------------------------------
MaxSerial     == 3      \* journal serials range over 1..MaxSerial
MaxSoaSerial  == 2      \* SOA serials of a serialized changeset
MaxRdata      == 1      \* RDATA values of a non-SOA RRSet
MaxSectionLen == 2      \* RRSets per REMOVE / ADD section
MaxJournalLen == 2      \* journal nodes in SpecLoad
JournalCap    == 2      \* nodes the journal of SpecUpd can hold

Serials    == 1..MaxSerial
SoaSerials == 1..MaxSoaSerial

\* ---------------------------------------------------------------------
\* RRSets and changesets
\* ---------------------------------------------------------------------
\* An RRSet is reduced to its type and one value (the serial for an SOA).
RRTypes == {"SOA", "A", "NS"}
RRSets  == {rr \in [type : RRTypes, val : 1..MaxSoaSerial \cup 1..MaxRdata] :
                rr.val \in (IF rr.type = "SOA" THEN SoaSerials ELSE 1..MaxRdata)}
SOA(s)  == [type |-> "SOA", val |-> s]

knot_rrset_type(rr)       == rr.type
knot_rdata_soa_serial(rr) == rr.val

SeqsUpTo(S, n) == UNION {[1..k -> S] : k \in 0..n}

\* knot_changeset_t as the serializer sees it.
Changesets ==
    [flags : {0, 1}, soa_from : {SOA(s) : s \in SoaSerials},
     remove : SeqsUpTo(RRSets, MaxSectionLen),
     soa_to : {SOA(s) : s \in SoaSerials},
     add : SeqsUpTo(RRSets, MaxSectionLen)]

\* ---------------------------------------------------------------------
\* Serialization: the entry is a flat cell sequence, flags first, then
\* every RRSet as two cells; no section lengths are written.
\* ---------------------------------------------------------------------
rrset_serialize(rr) == <<rr.type, rr.val>>

RECURSIVE WalkListSerialize(_)
WalkListSerialize(list) ==
    IF list = <<>> THEN <<>>
    ELSE rrset_serialize(Head(list)) \o WalkListSerialize(Tail(list))

zones_serialize_and_store_chgset(chs) ==
    <<chs.flags>>
        \o rrset_serialize(chs.soa_from)
        \o WalkListSerialize(chs.remove)
        \o rrset_serialize(chs.soa_to)
        \o WalkListSerialize(chs.add)

\* ---------------------------------------------------------------------
\* Parsing
\* ---------------------------------------------------------------------
\* rrset_deserialize on the cells that remain: fails when fewer than one
\* RRSet is left.
rrset_deserialize(stream) ==
    IF Len(stream) < 2 THEN [ret |-> "KNOT_EMALF", rr |-> NoRR, rest |-> <<>>]
    ELSE [ret |-> "KNOT_EOK",
          rr |-> [type |-> stream[1], val |-> stream[2]],
          rest |-> SubSeq(stream, 3, Len(stream))]

\* The 'while (remaining > 0)' loop of zones_changesets_from_binary.
\* A mutant that never leaves the REMOVE section.
RECURSIVE ReadRemainingNoSwitch(_, _, _)
ReadRemainingNoSwitch(stream, chs, in_remove_section) ==
    IF Len(stream) = 0 THEN [ret |-> "KNOT_EOK", chs |-> chs]
    ELSE LET d == rrset_deserialize(stream) IN
         IF d.ret # "KNOT_EOK" THEN [ret |-> "KNOT_EMALF", chs |-> chs]
         ELSE IF knot_rrset_type(d.rr) = "SOA"
              THEN ReadRemainingNoSwitch(d.rest,
                       [chs EXCEPT !.soa_to = d.rr], in_remove_section)
              ELSE ReadRemainingNoSwitch(d.rest,
                       [chs EXCEPT !.remove = Append(@, d.rr)],
                       in_remove_section)

RECURSIVE ReadRemaining(_, _, _)
ReadRemaining(stream, chs, in_remove_section) ==
    IF Len(stream) = 0 THEN [ret |-> "KNOT_EOK", chs |-> chs]
    ELSE LET d == rrset_deserialize(stream) IN
         IF d.ret # "KNOT_EOK" THEN [ret |-> "KNOT_EMALF", chs |-> chs]
         ELSE IF knot_rrset_type(d.rr) = "SOA"
              THEN IF in_remove_section
                   THEN ReadRemaining(d.rest,
                            [chs EXCEPT !.soa_to = d.rr], FALSE)
                   ELSE [ret |-> "KNOT_EOK", chs |-> chs]   \* final SOA
              ELSE IF in_remove_section
                   THEN ReadRemaining(d.rest,
                            [chs EXCEPT !.remove = Append(@, d.rr)], TRUE)
                   ELSE ReadRemaining(d.rest,
                            [chs EXCEPT !.add = Append(@, d.rr)], FALSE)

\* One changeset of zones_changesets_from_binary: data is chs->data (the
\* empty sequence stands for the NULL of a changeset no entry was read into).
ParseChangeset(data) ==
    LET empty == [flags |-> 0, soa_from |-> NoRR, remove |-> <<>>,
                  soa_to |-> NoRR, add |-> <<>>] IN
    IF data = <<>> THEN [ret |-> "KNOT_EMALF", chs |-> empty]
    ELSE IF Len(data) < 1 THEN [ret |-> "KNOT_EMALF", chs |-> empty]
    ELSE LET first == rrset_deserialize(Tail(data)) IN
         IF first.ret # "KNOT_EOK" THEN [ret |-> "KNOT_EMALF", chs |-> empty]
         ELSE ReadRemaining(first.rest,
                  [empty EXCEPT !.flags = data[1], !.soa_from = first.rr],
                  TRUE)

\* zones_changesets_from_binary over the whole envelope: stops at the
\* first changeset that fails.
RECURSIVE zones_changesets_from_binary(_)
zones_changesets_from_binary(sets) ==
    IF sets = <<>> THEN [ret |-> "KNOT_EOK", sets |-> <<>>]
    ELSE LET p == ParseChangeset(Head(sets).data) IN
         IF p.ret # "KNOT_EOK" THEN [ret |-> p.ret, sets |-> sets]
         ELSE LET r == zones_changesets_from_binary(Tail(sets)) IN
              [ret |-> r.ret,
               sets |-> <<[Head(sets) EXCEPT !.parsed = p.chs]>> \o r.sets]

\* ---------------------------------------------------------------------
\* The journal (IXFR DB) as zones.c uses it
\* ---------------------------------------------------------------------
\* A node is its key (serial_from in the low, serial_to in the high half)
\* and its flags; the payload is the serialized changeset of that step.
ixfrdb_key_make(from, to) == [from |-> from, to |-> to]
ixfrdb_key_from(k) == k.from
ixfrdb_key_to(k)   == k.to
ixfrdb_key_from_cmp(k, from) == ixfrdb_key_from(k) - from

JournalNodes ==
    {n \in [id : [from : Serials, to : Serials],
            flags : {{"VALID"}, {}, {"VALID", "TRANS"}}] : n.id.from # n.id.to}

NodeData(n) ==
    zones_serialize_and_store_chgset(
        [flags |-> 0, soa_from |-> SOA(n.id.from), remove |-> <<>>,
         soa_to |-> SOA(n.id.to), add |-> <<>>])

journal_is_used(nodes) == nodes # <<>>

\* journal_fetch: index of the first visible node whose key compares equal,
\* 0 when there is none (KNOT_ENOENT).
journal_fetch(nodes, id) ==
    LET hits == {i \in 1..Len(nodes) :
                    /\ "VALID" \in nodes[i].flags
                    /\ "TRANS" \notin nodes[i].flags
                    /\ ixfrdb_key_from_cmp(nodes[i].id, id) = 0} IN
    IF hits = {} THEN 0 ELSE CHOOSE i \in hits : \A k \in hits : i <= k

\* knot_changesets_create_changeset: a fresh, empty changeset.
EmptyChangeset ==
    [serial_from |-> 0, serial_to |-> 0, data |-> <<>>,
     parsed |-> [flags |-> 0, soa_from |-> NoRR, remove |-> <<>>,
                 soa_to |-> NoRR, add |-> <<>>]]

LoadFailures == {"none", "retain", "create", "malloc", "read"}

\* The 'while (n != 0 && n != journal_end)' loop of zones_load_changesets.
\* fail names the collaborator that fails on its first use.
RECURSIVE LoadLoop(_, _, _, _, _, _)
LoadLoop(nodes, n, to, found_to, dst, fail) ==
    IF n > Len(nodes) \/ to = found_to
    THEN [ret |-> "KNOT_EOK", dst |-> dst, found_to |-> found_to]
    ELSE IF fail = "create"
    THEN [ret |-> "KNOT_ERROR", dst |-> dst, found_to |-> found_to]
    ELSE LET dst1 == Append(dst, EmptyChangeset) IN
         IF "VALID" \notin nodes[n].flags \/ "TRANS" \in nodes[n].flags
         THEN LoadLoop(nodes, n + 1, to, found_to, dst1, fail)
         ELSE IF fail = "malloc"
         THEN [ret |-> "KNOT_ENOMEM", dst |-> dst1, found_to |-> found_to]
         ELSE IF fail = "read"
         THEN [ret |-> "KNOT_ERROR", dst |-> dst1, found_to |-> found_to]
         ELSE LoadLoop(nodes, n + 1, to, ixfrdb_key_to(nodes[n].id),
                  Append(dst,
                      [EmptyChangeset EXCEPT
                          !.serial_from = ixfrdb_key_from(nodes[n].id),
                          !.serial_to = ixfrdb_key_to(nodes[n].id),
                          !.data = NodeData(nodes[n])]),
                  fail)

zones_load_changesets(nodes, from, to, fail) ==
    IF ~journal_is_used(nodes)
    THEN [ret |-> "KNOT_ERANGE", dst |-> <<>>]
    ELSE IF fail = "retain"
    THEN [ret |-> "KNOT_ERROR", dst |-> <<>>]
    ELSE LET n == journal_fetch(nodes, from) IN
         IF n = 0 THEN [ret |-> "KNOT_ENOENT", dst |-> <<>>]
         ELSE LET l == LoadLoop(nodes, n, to, from, <<>>, fail) IN
              IF l.ret # "KNOT_EOK" THEN [ret |-> l.ret, dst |-> l.dst]
              ELSE LET u == zones_changesets_from_binary(l.dst) IN
                   IF u.ret # "KNOT_EOK" THEN [ret |-> u.ret, dst |-> u.sets]
                   ELSE IF to # l.found_to
                   THEN [ret |-> "KNOT_ERANGE", dst |-> u.sets]
                   ELSE [ret |-> "KNOT_EOK", dst |-> u.sets]

\* ---------------------------------------------------------------------
\* Journal transactions and storing (SpecUpd)
\* ---------------------------------------------------------------------
\* journal_map: a new node is DIRTY and TRANS until unmapped and committed.
\* A full journal gives the slot of its oldest node away only when that
\* node is not DIRTY; fits = FALSE is an entry larger than the journal.
\* Of a node these operations read the flags only, never the key k again,
\* so the nodes of this journal are kept as their flags.
journal_map(nodes, k, fits) ==
    LET n == [flags |-> {"DIRTY", "TRANS"}] IN
    IF ~fits THEN [ret |-> "KNOT_EBUSY", nodes |-> nodes]
    ELSE IF Len(nodes) < JournalCap
    THEN [ret |-> "KNOT_EOK", nodes |-> Append(nodes, n)]
    ELSE IF "DIRTY" \in nodes[1].flags
    THEN [ret |-> "KNOT_EBUSY", nodes |-> nodes]
    ELSE [ret |-> "KNOT_EOK", nodes |-> Append(Tail(nodes), n)]

\* journal_unmap of the node mapped last: validated, or its slot discarded.
journal_unmap(nodes, valid) ==
    IF valid
    THEN [nodes EXCEPT ![Len(nodes)].flags = @ \cup {"VALID"}]
    ELSE SubSeq(nodes, 1, Len(nodes) - 1)

journal_trans_commit(nodes) ==
    [i \in 1..Len(nodes) |-> [nodes[i] EXCEPT !.flags = @ \ {"TRANS"}]]

\* journal_walk(journal, zones_ixfrdb_sync_apply)
zones_ixfrdb_sync_apply(n) == [n EXCEPT !.flags = @ \ {"DIRTY"}]
journal_walk(nodes) ==
    [i \in 1..Len(nodes) |-> zones_ixfrdb_sync_apply(nodes[i])]

StoreFailures == {"none", "begin", "serialize", "toobig"}

zones_store_changeset(chs, nodes, fail) ==
    LET k == ixfrdb_key_make(chs.serial_from, chs.serial_to)
        m == journal_map(nodes, k, fail # "toobig") IN
    IF m.ret # "KNOT_EOK" THEN m
    ELSE IF fail = "serialize"
    THEN [ret |-> "KNOT_ERROR", nodes |-> journal_unmap(m.nodes, FALSE)]
    ELSE [ret |-> "KNOT_EOK", nodes |-> journal_unmap(m.nodes, TRUE)]

RECURSIVE zones_store_changesets(_, _, _)
zones_store_changesets(src, nodes, fail) ==
    IF src = <<>> THEN [ret |-> "KNOT_EOK", nodes |-> nodes]
    ELSE LET r == zones_store_changeset(Head(src), nodes, fail) IN
         IF r.ret # "KNOT_EOK" THEN r
         ELSE zones_store_changesets(Tail(src), r.nodes, fail)

\* zones_store_chgsets_try_store: begin, store, roll back on failure (the
\* rollback gives the journal back as it was at the begin).
zones_store_chgsets_try_store(nodes, chgsets, fail) ==
    IF fail = "begin"
    THEN [ret |-> "KNOT_ERROR", nodes |-> nodes, trans |-> FALSE]
    ELSE LET r == zones_store_changesets(chgsets, nodes, fail) IN
         IF r.ret # "KNOT_EOK"
         THEN [ret |-> r.ret, nodes |-> nodes, trans |-> FALSE]
         ELSE [ret |-> "KNOT_EOK", nodes |-> r.nodes, trans |-> TRUE]

zones_changesets_empty(chs) == chs = <<>>

\* ---------------------------------------------------------------------
\* Zonefile flush
\* ---------------------------------------------------------------------
DumpOutcomes == {"ok", "ewritable", "dump", "stat"}
Mtimes == {1, 2}

\* A mutant that dumps the zone whatever zonefile_serial is.
zones_zonefile_sync_always(c, nodes, zfs, zmt, dump, mt) ==
    IF c = 0
    THEN [ret |-> "KNOT_EINVAL", nodes |-> nodes, zfs |-> zfs, zmt |-> zmt,
          wrote |-> FALSE, walked |-> FALSE]
    ELSE [ret |-> "KNOT_EOK", nodes |-> journal_walk(nodes), zfs |-> c,
          zmt |-> mt, wrote |-> TRUE, walked |-> TRUE]

\* A mutant that marks the journal clean and moves zonefile_serial before
\* it knows whether the zonefile was written.
zones_zonefile_sync_eager(c, nodes, zfs, zmt, dump, mt) ==
    LET same == [ret |-> "KNOT_EOK", nodes |-> nodes, zfs |-> zfs,
                 zmt |-> zmt, wrote |-> FALSE, walked |-> FALSE]
        done == [ret |-> "KNOT_EOK", nodes |-> journal_walk(nodes),
                 zfs |-> c, zmt |-> zmt, wrote |-> FALSE, walked |-> TRUE]
    IN
    IF c = 0 THEN [same EXCEPT !.ret = "KNOT_EINVAL"]
    ELSE IF zfs # c
    THEN IF dump = "ewritable" THEN [done EXCEPT !.ret = "KNOT_EWRITABLE"]
         ELSE IF dump = "dump" THEN [done EXCEPT !.ret = "KNOT_ERROR"]
         ELSE IF dump = "stat"
         THEN [done EXCEPT !.ret = "KNOT_ERROR", !.wrote = TRUE]
         ELSE [done EXCEPT !.zmt = mt, !.wrote = TRUE]
    ELSE [same EXCEPT !.ret = "KNOT_ERANGE"]

\* zones_zonefile_sync(zone, journal): c is the serial of zone->contents,
\* dump the outcome of zones_dump_zone_text and stat, mt the mtime read.
zones_zonefile_sync(c, nodes, zfs, zmt, dump, mt) ==
    LET same == [ret |-> "KNOT_EOK", nodes |-> nodes, zfs |-> zfs,
                 zmt |-> zmt, wrote |-> FALSE, walked |-> FALSE] IN
    IF c = 0 THEN [same EXCEPT !.ret = "KNOT_EINVAL"]
    ELSE IF zfs # c
    THEN IF dump = "ewritable" THEN [same EXCEPT !.ret = "KNOT_EWRITABLE"]
         ELSE IF dump = "dump" THEN [same EXCEPT !.ret = "KNOT_ERROR"]
         ELSE IF dump = "stat"
         THEN [same EXCEPT !.ret = "KNOT_ERROR", !.wrote = TRUE]
         ELSE [ret |-> "KNOT_EOK", nodes |-> journal_walk(nodes), zfs |-> c,
               zmt |-> mt, wrote |-> TRUE, walked |-> TRUE]
    ELSE [same EXCEPT !.ret = "KNOT_ERANGE"]

\* zones_zonefile_sync_from_ev: only with contents and a used journal.
zones_zonefile_sync_from_ev(c, nodes, zfs, zmt, retained, dump, mt) ==
    LET same == [ret |-> "KNOT_EOK", nodes |-> nodes, zfs |-> zfs,
                 zmt |-> zmt, wrote |-> FALSE, walked |-> FALSE,
                 called |-> FALSE] IN
    IF c # 0 /\ journal_is_used(nodes)
    THEN IF ~retained THEN [same EXCEPT !.ret = "KNOT_ERROR"]
         ELSE LET r == zones_zonefile_sync(c, nodes, zfs, zmt, dump, mt) IN
              [ret |-> r.ret, nodes |-> r.nodes, zfs |-> r.zfs,
               zmt |-> r.zmt, wrote |-> r.wrote, walked |-> r.walked,
               called |-> TRUE]
    ELSE same

\* What is remembered of the zones_zonefile_sync calls made since the
\* contents last changed: the result of the last call (ret, whether it
\* wrote the zonefile, walked the journal, changed zonefile_serial or
\* zonefile_mtime) and whether the call before it had returned KNOT_EOK.
NoSync == [ret |-> "none", wrote |-> FALSE, walked |-> FALSE,
           changed |-> FALSE, after_ok |-> FALSE]

Remember(h, r, c, zfs, zmt) ==
    [ret |-> r.ret, wrote |-> r.wrote, walked |-> r.walked,
     changed |-> (r.zfs # zfs \/ r.zmt # zmt),
     after_ok |-> (h.ret = "KNOT_EOK")]

\* ---------------------------------------------------------------------
\* Serial policy
\* ---------------------------------------------------------------------
\* zones_next_serial; the warning for a serial that does not grow changes
\* nothing.  Serials stay below the bound through the guards of the actions.
zones_next_serial(old_serial, policy, now) ==
    IF policy = "CONF_SERIAL_INCREMENT" THEN old_serial + 1 ELSE now

\* An event of the scheduler: not scheduled, or due after 'after' ms.
Unarmed == [armed |-> FALSE, after |-> 0]
Armed(ms) == [armed |-> TRUE, after |-> ms]
\* A timer handle that is NULL: no event was created yet.
NullEvent == [armed |-> FALSE, after |-> 0 - 1]

NoOp ==
    [name |-> "none", pc |-> "idle", ret |-> "none", rcode |-> "none",
     new_serial |-> 0, chgsets |-> <<>>, new_signatures |-> FALSE,
     new_contents |-> FALSE, jsave |-> <<>>, trans |-> FALSE,
     committed |-> FALSE, swapped |-> FALSE, noop |-> FALSE,
     first |-> "none", store_ret |-> "none", attempts |-> 0,
     flushes |-> 0, flush_ret |-> "none", writes |-> 0]

UpdUnused ==
    /\ conf = [dnssec_enable |-> FALSE, dbsync_timeout |-> 0,
               serial_policy |-> "CONF_SERIAL_INCREMENT",
               build_diffs |-> FALSE]
    /\ contents = 0
    /\ journal = <<>>
    /\ zonefile_serial = 0
    /\ zonefile_mtime = 0
    /\ ixfr_dbsync = Unarmed
    /\ op = NoOp
    /\ syncs = NoSync

\* A thread outside every read-side critical section holds no pointer.
ReaderOut == [pc |-> "out", db |-> 0, zc |-> 0]

\* A handler that is not running.
NotRunning == [pc |-> "idle", old |-> 0, waiting |-> {}, waited |-> FALSE]

RcuUnused ==
    /\ zone_db = 0
    /\ zone_contents = 0
    /\ freed = [db |-> {}, zc |-> {}]
    /\ readers = <<>>
    /\ expire_ev = NotRunning
    /\ conf_hook = NotRunning

\* The scheduler thread outside every handler.
NoTick == [name |-> "none", pc |-> "idle", finished |-> FALSE,
           rq |-> "none", ret |-> "none", waiting |-> {}]

\* An apex without the RRSet (knot_node_rrset gives NULL).
NoKeys == [rdata |-> 0, ttl |-> 0]
NotSigned == [done |-> FALSE, signer |-> "none", ret |-> "none"]

SignUnused ==
    /\ apex = [old |-> [dnskey |-> NoKeys, nsec3param |-> NoKeys],
               new |-> [dnskey |-> NoKeys, nsec3param |-> NoKeys]]
    /\ signing = NotSigned

\* No function was called.
NoNum == [fn |-> "none"]
NumUnused == num = NoNum

\* zone->dnssec_timer is NULL: the event was not created.
NullTimer == [exists |-> FALSE, armed |-> FALSE, tv_sec |-> 0,
              dt |-> [hi |-> 0, lo |-> 0]]
NoCall32 == [fn |-> "none", t |-> 0, before |-> NullTimer, ret |-> "none",
             warned |-> FALSE, cancelled |-> FALSE]
DnssecUnused == dnssec = [timer |-> NullTimer, now |-> 0, calls |-> 0,
                          call |-> NoCall32]

\* No operation uses the journal and nobody retains it.
NoJournalOp == [refs |-> 0, trans |-> FALSE, op |-> "none", pc |-> "idle"]
RetainUnused == jr = NoJournalOp

\* No zone is dumped.
NoDump == [fn |-> "none"]
DumpUnused == zdump = NoDump

RestUnused == NumUnused /\ DnssecUnused /\ RetainUnused /\ DumpUnused

XfrUnused ==
    /\ zone = [contents |-> 0, refresh |-> 0, retry |-> 0, expire |-> 0,
               max_conn_idle |-> 0, ixfr_db |-> FALSE]
    /\ xfr_in = [state |-> "XFR_IDLE", has_master |-> FALSE,
                 timer |-> Unarmed, expire |-> NullEvent,
                 bootstrap_retry |-> 0]
    /\ lock = 0
    /\ xfr_queue = <<>>
    /\ thr = <<>>
    /\ ev = NoTick

NoLoad == [ret |-> "none", dst |-> <<>>, from |-> 0, to |-> 0,
           fail |-> "none"]
NotParsed == [ret |-> "none", chs |-> NoRR]

SerUnused ==
    /\ cs = [flags |-> 0, soa_from |-> SOA(1), remove |-> <<>>,
             soa_to |-> SOA(1), add |-> <<>>]
    /\ parsed = NotParsed

LoadUnused ==
    /\ jnodes = <<>>
    /\ ld = NoLoad

\* ---------------------------------------------------------------------
\* SpecSer: serialize a changeset, parse the bytes back
\* ---------------------------------------------------------------------
InitSer ==
    /\ cs \in Changesets
    /\ parsed = NotParsed
    /\ jnodes = <<>>
    /\ ld = NoLoad
    /\ UpdUnused
    /\ RcuUnused
    /\ XfrUnused
    /\ SignUnused
    /\ RestUnused

RoundTrip ==
    /\ parsed = NotParsed
    /\ parsed' = ParseChangeset(zones_serialize_and_store_chgset(cs))
    /\ UNCHANGED <<cs, loadVars, updVars, rcuVars, xfrVars, signVars, restVars>>

NextSer == RoundTrip

SpecSer == InitSer /\ [][NextSer]_vars

HasSOA(list) == \E i \in 1..Len(list) : list[i].type = "SOA"

\* C6 (as stated): for every changeset, also with an SOA RRSet inside the
\* REMOVE or ADD section, parsing the written bytes gives the changeset back.
C6_RoundTripAll ==
    parsed # NotParsed => (parsed.ret = "KNOT_EOK" /\ parsed.chs = cs)

\* C6 (amended): parsing the written bytes gives the changeset back, order
\* preserved, whenever neither section contains an SOA RRSet.
C6_RoundTripNoInnerSOA ==
    (parsed # NotParsed /\ ~HasSOA(cs.remove) /\ ~HasSOA(cs.add))
        => (parsed.ret = "KNOT_EOK" /\ parsed.chs = cs)

C6_Witness ==
    /\ parsed # NotParsed
    /\ Len(cs.remove) = 2 /\ Len(cs.add) = 2
    /\ cs.remove[1] # cs.remove[2] /\ cs.add[1] # cs.add[2]
    /\ ~HasSOA(cs.remove) /\ ~HasSOA(cs.add)
    /\ parsed.chs = cs

\* ---------------------------------------------------------------------
\* SpecLoad: zones_load_changesets over the journals the server can hold
\* (gaps appear after a full transfer or a reload without diffs; TRANS and
\* invalid nodes while another thread has a transaction open)
\* ---------------------------------------------------------------------
InitLoad ==
    /\ jnodes \in SeqsUpTo(JournalNodes, MaxJournalLen)
    /\ ld = NoLoad
    /\ cs = [flags |-> 0, soa_from |-> SOA(1), remove |-> <<>>,
             soa_to |-> SOA(1), add |-> <<>>]
    /\ parsed = NotParsed
    /\ UpdUnused
    /\ RcuUnused
    /\ XfrUnused
    /\ SignUnused
    /\ RestUnused

LoadChangesets ==
    /\ ld = NoLoad
    /\ \E from \in Serials, to \in Serials, fail \in LoadFailures :
          LET r == zones_load_changesets(jnodes, from, to, fail) IN
          ld' = [ret |-> r.ret, dst |-> r.dst, from |-> from, to |-> to,
                 fail |-> fail]
    /\ UNCHANGED <<jnodes, serVars, updVars, rcuVars, xfrVars, signVars, restVars>>

NextLoad == LoadChangesets

SpecLoad == InitLoad /\ [][NextLoad]_vars

\* dst is a gap-free chain from 'from' to 'to'.
IsChain(dst, from, to) ==
    /\ dst # <<>> => (dst[1].serial_from = from /\ dst[Len(dst)].serial_to = to)
    /\ dst = <<>> => from = to
    /\ \A i \in 1..(Len(dst) - 1) : dst[i].serial_to = dst[i + 1].serial_from

\* C4 (as stated): whenever zones_load_changesets returns OK, dst is a
\* gap-free chain from 'from' to 'to', whatever the journal holds.
C4_LoadedChainHasNoGaps ==
    ld.ret = "KNOT_EOK" => IsChain(ld.dst, ld.from, ld.to)

Visible(n) == "VALID" \in n.flags /\ "TRANS" \notin n.flags

\* C5 (as stated): every changeset in dst corresponds to a VALID, non-TRANS
\* journal entry, and skipped entries neither add to dst nor change the
\* result: the call gives what it gives on the journal without them
\* (stated for the calls in which no allocation or read fails).
C5_SkippedEntriesLeaveNoTrace ==
    (ld.ret # "none" /\ ld.fail = "none") =>
        /\ \A i \in 1..Len(ld.dst) :
              \E k \in 1..Len(jnodes) :
                 /\ Visible(jnodes[k])
                 /\ ld.dst[i].serial_from = jnodes[k].id.from
                 /\ ld.dst[i].serial_to = jnodes[k].id.to
        /\ LET clean == SelectSeq(jnodes, Visible) IN
           clean # <<>> =>
              ld.ret = zones_load_changesets(clean, ld.from, ld.to, ld.fail).ret

\* ---------------------------------------------------------------------
\* SpecUpd: the operations that journal a change and install new contents.
\* One operation runs at a time; op.pc walks through its code: the part
\* before the store, the store with the journal-full recovery, the part
\* after it.  Every failing collaborator is an input of the step that
\* calls it.
\* ---------------------------------------------------------------------
MaxChgsets == 2         \* changesets of one inbound IXFR

InitUpd ==
    /\ conf \in [dnssec_enable : BOOLEAN, dbsync_timeout : {0, 1},
                 serial_policy : {"CONF_SERIAL_INCREMENT",
                                  "CONF_SERIAL_UNIXTIME"},
                 build_diffs : BOOLEAN]
    /\ contents = 1
    /\ journal = <<>>
    /\ zonefile_serial = 1
    /\ zonefile_mtime = 1
    /\ ixfr_dbsync = IF conf.dbsync_timeout > 0
                     THEN Armed(conf.dbsync_timeout * 1000) ELSE Unarmed
    /\ op = NoOp
    /\ syncs = NoSync
    /\ cs = [flags |-> 0, soa_from |-> SOA(1), remove |-> <<>>,
             soa_to |-> SOA(1), add |-> <<>>]
    /\ parsed = NotParsed
    /\ jnodes = <<>>
    /\ ld = NoLoad
    /\ RcuUnused
    /\ XfrUnused
    /\ SignUnused
    /\ RestUnused

Idle == op.pc \in {"idle", "done"}

\* time(NULL) as zones_next_serial reads it; only the unixtime policy
\* looks at it.
Clock(used) ==
    IF used /\ conf.serial_policy = "CONF_SERIAL_UNIXTIME" THEN Serials
    ELSE {1}

Step(from, to) == [serial_from |-> from, serial_to |-> to]

\* zones_schedule_ixfr_sync(zone, 0) when dbsync_timeout == 0
SyncImmediately(timer) ==
    IF conf.dbsync_timeout = 0 THEN Armed(0 * 1000) ELSE timer

\* --- zones_process_update_auth, up to zones_merge_and_store_changesets --
UpdatePreFailures ==
    {"none", "chgsets_alloc", "chs_alloc", "update_err", "update_noop",
     "sec_alloc", "fake_zone", "sign", "merge"}
ApplicatorRcodes == {"KNOT_RCODE_SERVFAIL", "KNOT_RCODE_FORMERR"}
CallerRcodes == {"KNOT_RCODE_NOERROR", "KNOT_RCODE_SERVFAIL"}

ProcessUpdateBegin ==
    /\ Idle
    /\ contents # 0
    /\ \E pre \in UpdatePreFailures :
       \E rcode0 \in IF pre = "chs_alloc" THEN CallerRcodes
                     ELSE {"KNOT_RCODE_SERVFAIL"},
          arc \in IF pre = "update_err" THEN ApplicatorRcodes
                  ELSE {"KNOT_RCODE_SERVFAIL"},
          now \in Clock(pre \in {"none", "merge"}),
          signed \in IF pre \in {"none", "merge"} THEN BOOLEAN ELSE {FALSE} :
          LET new_serial == zones_next_serial(contents, conf.serial_policy,
                                              now)
              f == [NoOp EXCEPT !.name = "update"]
              fail(ret, rc) == [f EXCEPT !.pc = "done", !.ret = ret,
                                         !.rcode = rc]
          IN
          /\ new_serial <= MaxSerial
          /\ pre \in {"sec_alloc", "sign"} => conf.dnssec_enable
          /\ signed => conf.dnssec_enable
          /\ pre = "merge" => signed
          /\ op' =
               CASE pre = "chgsets_alloc" ->
                        fail("KNOT_EOK", "KNOT_RCODE_SERVFAIL")
                 [] pre = "chs_alloc" -> fail("KNOT_ENOMEM", rcode0)
                 [] pre = "update_err" -> fail("KNOT_ERROR", arc)
                 [] pre = "update_noop" ->
                        [fail("KNOT_EOK", "KNOT_RCODE_NOERROR")
                            EXCEPT !.noop = TRUE]
                 [] pre \in {"sec_alloc", "fake_zone"} ->
                        fail("KNOT_ENOMEM", "KNOT_RCODE_SERVFAIL")
                 [] pre \in {"sign", "merge"} ->
                        fail("KNOT_ERROR", "KNOT_RCODE_SERVFAIL")
                 [] pre = "none" ->
                        [f EXCEPT !.pc = "store",
                                  !.new_serial = new_serial,
                                  !.rcode = "KNOT_RCODE_SERVFAIL",
                                  !.chgsets = <<Step(contents, new_serial)>>,
                                  !.new_signatures = signed,
                                  !.new_contents = TRUE]
    /\ UNCHANGED <<conf, contents, journal, zonefile_serial, zonefile_mtime,
                   ixfr_dbsync, syncs, notUpdVars>>

\* --- zones_store_changesets_begin_and_store ------------------------------
StoreFirst ==
    /\ op.pc = "store"
    /\ IF zones_changesets_empty(op.chgsets)
       THEN /\ op' = [op EXCEPT !.pc = "post", !.store_ret = "KNOT_EINVAL"]
            /\ UNCHANGED journal
       ELSE \E fail \in StoreFailures :
               LET r == zones_store_chgsets_try_store(journal, op.chgsets,
                                                      fail) IN
               /\ journal' = r.nodes
               /\ op' = [op EXCEPT
                           !.pc = IF r.ret = "KNOT_EBUSY" THEN "flush"
                                  ELSE "post",
                           !.first = r.ret, !.store_ret = r.ret,
                           !.attempts = 1, !.trans = r.trans,
                           !.jsave = journal]
    /\ UNCHANGED <<conf, contents, zonefile_serial, zonefile_mtime,
                   ixfr_dbsync, syncs, notUpdVars>>

StoreFlush ==
    /\ op.pc = "flush"
    /\ \E retained \in BOOLEAN :
       \E dump \in IF retained THEN DumpOutcomes ELSE {"ok"} :
       \E mt \in IF retained /\ dump = "ok" THEN Mtimes ELSE {1} :
          LET r == zones_zonefile_sync_from_ev(contents, journal,
                       zonefile_serial, zonefile_mtime, retained, dump, mt)
          IN
          /\ journal' = r.nodes
          /\ zonefile_serial' = r.zfs
          /\ zonefile_mtime' = r.zmt
          /\ syncs' = IF r.called
                      THEN Remember(syncs, r, contents, zonefile_serial,
                                    zonefile_mtime)
                      ELSE syncs
          /\ op' = [op EXCEPT
                      !.pc = IF r.ret = "KNOT_EOK" THEN "store2" ELSE "post",
                      !.flushes = @ + 1, !.flush_ret = r.ret,
                      !.store_ret = r.ret,
                      !.writes = @ + (IF r.wrote THEN 1 ELSE 0)]
    /\ UNCHANGED <<conf, contents, ixfr_dbsync, notUpdVars>>

StoreSecond ==
    /\ op.pc = "store2"
    /\ \E fail \in StoreFailures :
          LET r == zones_store_chgsets_try_store(journal, op.chgsets, fail)
          IN
          /\ journal' = r.nodes
          /\ op' = [op EXCEPT !.pc = "post", !.store_ret = r.ret,
                              !.attempts = @ + 1, !.trans = r.trans,
                              !.jsave = journal]
    /\ UNCHANGED <<conf, contents, zonefile_serial, zonefile_mtime,
                   ixfr_dbsync, syncs, notUpdVars>>

\* --- what the three callers do after the store ---------------------------
\* The frame of an operation that has returned: its locals are gone, what
\* it returned and what it did to the journal and the contents stays.
Returned(o, ret, rcode, committed, swapped) ==
    [NoOp EXCEPT !.name = o.name, !.pc = "done", !.ret = ret,
                 !.rcode = rcode, !.noop = o.noop,
                 !.new_contents = o.new_contents,
                 !.committed = committed, !.swapped = swapped]

\* The operation returns ret without having committed: a transaction that
\* is open is rolled back when rollback is set.
Abort(ret, rollback) ==
    /\ op' = Returned(op, ret, op.rcode, FALSE, FALSE)
    /\ journal' = IF rollback /\ op.trans THEN op.jsave ELSE journal
    /\ UNCHANGED <<contents, ixfr_dbsync, syncs>>

\* zones_store_changesets_commit fails: nothing of the transaction stays.
CommitFails(ret) ==
    /\ op' = Returned(op, ret, op.rcode, FALSE, FALSE)
    /\ journal' = op.jsave
    /\ UNCHANGED <<contents, ixfr_dbsync, syncs>>

\* The transaction is committed and xfrin_switch_zone fails.
SwitchFails(ret) ==
    /\ op' = Returned(op, ret, op.rcode, op.trans, FALSE)
    /\ journal' = IF op.trans THEN journal_trans_commit(journal) ELSE journal
    /\ UNCHANGED <<contents, ixfr_dbsync, syncs>>

\* Commit (when a transaction is open) and switch (when there are new
\* contents) both succeed.
CommitAndSwitch(ret, rcode, timer) ==
    /\ op' = Returned(op, ret, rcode, op.trans, op.new_contents)
    /\ journal' = IF op.trans THEN journal_trans_commit(journal) ELSE journal
    /\ contents' = IF op.new_contents THEN op.new_serial ELSE contents
    /\ syncs' = IF op.new_contents THEN NoSync ELSE syncs
    /\ ixfr_dbsync' = timer

UpdatePostFailures ==
    {"none", "apply_dnssec", "replan", "adjust", "commit", "switch"}

ProcessUpdateFinish ==
    /\ op.pc = "post"
    /\ op.name = "update"
    /\ IF op.store_ret # "KNOT_EOK"
       THEN Abort(op.store_ret, FALSE)
       ELSE \E post \in UpdatePostFailures :
               /\ post \in {"apply_dnssec", "replan"} => op.new_signatures
               /\ post = "adjust" => ~op.new_signatures
               /\ post = "commit" => op.trans
               /\ CASE post \in {"apply_dnssec", "replan", "adjust"} ->
                          Abort("KNOT_ERROR", TRUE)
                    [] post = "commit" -> CommitFails("KNOT_ERROR")
                    [] post = "switch" -> SwitchFails("KNOT_ERROR")
                    [] post = "none" ->
                          CommitAndSwitch("KNOT_EOK", "KNOT_RCODE_NOERROR",
                                          SyncImmediately(ixfr_dbsync))
    /\ UNCHANGED <<conf, zonefile_serial, zonefile_mtime, notUpdVars>>

\* --- zones_store_and_apply_chgsets ---------------------------------------
StoreAndApplyBegin ==
    /\ Idle
    /\ contents # 0
    /\ \E n \in 0..MaxChgsets :
          /\ contents + n <= MaxSerial
          /\ op' = [NoOp EXCEPT
                      !.name = "ixfr", !.pc = "store",
                      !.new_serial = contents + n,
                      !.chgsets = [i \in 1..n |->
                                      Step(contents + i - 1, contents + i)],
                      !.new_contents = TRUE]
    /\ UNCHANGED <<conf, contents, journal, zonefile_serial, zonefile_mtime,
                   ixfr_dbsync, syncs, notUpdVars>>

ApplyPostFailures == {"none", "apply", "commit", "switch"}

StoreAndApplyFinish ==
    /\ op.pc = "post"
    /\ op.name = "ixfr"
    /\ IF op.store_ret # "KNOT_EOK"
       THEN Abort(op.store_ret, FALSE)
       ELSE \E post \in ApplyPostFailures :
               CASE post = "apply" -> Abort("KNOT_ERROR", TRUE)
                 [] post = "commit" -> CommitFails("KNOT_ERROR")
                 [] post = "switch" -> SwitchFails("KNOT_ERROR")
                 [] post = "none" ->
                       CommitAndSwitch("KNOT_EOK", op.rcode, ixfr_dbsync)
    /\ UNCHANGED <<conf, zonefile_serial, zonefile_mtime, notUpdVars>>

\* --- zones_do_diff_and_sign ----------------------------------------------
\* The zone handed over was (re)loaded from its zonefile when zone_changed:
\* its contents and zonefile serial are then those of the file, f.
DiffSignPreFailures ==
    {"none", "diff_alloc", "diff_err", "sec_alloc", "sign", "merge"}

\* zones_create_changeset: KNOT_ENODIFF for equal serials, KNOT_ERANGE for
\* a serial that went back.
zones_create_changeset(old, new) ==
    IF new = old THEN "KNOT_ENODIFF"
    ELSE IF new < old THEN "KNOT_ERANGE" ELSE "KNOT_EOK"

DoDiffAndSignBegin ==
    /\ Idle
    /\ contents # 0
    /\ \E zone_changed \in BOOLEAN, pre \in DiffSignPreFailures :
       \E f \in IF zone_changed THEN Serials ELSE {contents},
          now \in Clock(conf.dnssec_enable /\ pre \in {"none", "merge"}),
          signed \in IF pre \in {"none", "merge"} THEN BOOLEAN ELSE {FALSE} :
          LET old == contents
              zc == IF zone_changed THEN f ELSE contents
              build == conf.build_diffs /\ zone_changed
              diff_ret == zones_create_changeset(old, zc)
              diff_chs == IF build /\ diff_ret = "KNOT_EOK"
                          THEN <<Step(old, zc)>> ELSE <<>>
              new_serial == zones_next_serial(zc, conf.serial_policy, now)
              sec_chs == IF signed THEN <<Step(zc, new_serial)>> ELSE <<>>
              g == [NoOp EXCEPT !.name = "diffsign"]
              fail(ret) == [g EXCEPT !.pc = "done", !.ret = ret]
          IN
          /\ conf.dnssec_enable => new_serial <= MaxSerial
          /\ pre \in {"diff_alloc", "diff_err"} => build
          /\ pre \in {"sec_alloc", "sign"} => conf.dnssec_enable
          /\ signed => conf.dnssec_enable
          /\ pre = "merge" => (signed /\ diff_chs # <<>>)
          /\ contents' = zc
          /\ zonefile_serial' = IF zone_changed THEN f ELSE zonefile_serial
          /\ syncs' = IF zone_changed THEN NoSync ELSE syncs
          /\ op' =
               CASE pre \in {"diff_alloc", "sec_alloc"} -> fail("KNOT_ENOMEM")
                 [] pre \in {"diff_err", "sign", "merge"} ->
                        fail("KNOT_ERROR")
                 [] pre = "none" ->
                        IF build /\ diff_ret = "KNOT_ERANGE"
                        THEN fail("KNOT_ERANGE")
                        ELSE IF zones_changesets_empty(diff_chs)
                                /\ zones_changesets_empty(sec_chs)
                        THEN [g EXCEPT !.pc = "post",
                                       !.store_ret = "KNOT_EOK"]
                        ELSE [g EXCEPT
                                !.pc = "store",
                                !.new_serial = new_serial,
                                !.chgsets =
                                   IF zones_changesets_empty(sec_chs)
                                   THEN diff_chs
                                   ELSE IF zones_changesets_empty(diff_chs)
                                   THEN sec_chs
                                   ELSE <<Step(old, new_serial)>>,
                                !.new_signatures = signed,
                                !.new_contents = signed]
    /\ UNCHANGED <<conf, journal, zonefile_mtime, ixfr_dbsync, notUpdVars>>

DoDiffAndSignFinish ==
    /\ op.pc = "post"
    /\ op.name = "diffsign"
    /\ IF op.store_ret # "KNOT_EOK"
       THEN Abort(op.store_ret, FALSE)
       ELSE \E post \in ApplyPostFailures :
               /\ post = "apply" => op.new_signatures
               /\ post = "commit" => op.trans
               /\ post = "switch" => op.new_contents
               /\ CASE post = "apply" -> Abort("KNOT_ERROR", TRUE)
                    [] post = "commit" -> CommitFails("KNOT_ERROR")
                    [] post = "switch" -> SwitchFails("KNOT_ERROR")
                    [] post = "none" ->
                          CommitAndSwitch("KNOT_EOK", op.rcode, ixfr_dbsync)
    /\ UNCHANGED <<conf, zonefile_serial, zonefile_mtime, notUpdVars>>

\* --- zones_flush_ev and a direct zones_zonefile_sync ---------------------
FlushEv ==
    /\ Idle
    /\ ixfr_dbsync.armed
    /\ \E retained \in BOOLEAN :
       \E dump \in IF retained THEN DumpOutcomes ELSE {"ok"} :
       \E mt \in IF retained /\ dump = "ok" THEN Mtimes ELSE {1} :
          LET r == zones_zonefile_sync_from_ev(contents, journal,
                       zonefile_serial, zonefile_mtime, retained, dump, mt)
          IN
          /\ journal' = r.nodes
          /\ zonefile_serial' = r.zfs
          /\ zonefile_mtime' = r.zmt
          /\ syncs' = IF r.called
                      THEN Remember(syncs, r, contents, zonefile_serial,
                                    zonefile_mtime)
                      ELSE syncs
    /\ ixfr_dbsync' = IF conf.dbsync_timeout * 1000 > 0
                      THEN Armed(conf.dbsync_timeout * 1000) ELSE Unarmed
    /\ UNCHANGED <<conf, contents, op, notUpdVars>>

ZonefileSync ==
    /\ Idle
    /\ \E dump \in DumpOutcomes :
       \E mt \in IF dump = "ok" THEN Mtimes ELSE {1} :
          LET r == zones_zonefile_sync(contents, journal, zonefile_serial,
                                       zonefile_mtime, dump, mt) IN
          /\ journal' = r.nodes
          /\ zonefile_serial' = r.zfs
          /\ zonefile_mtime' = r.zmt
          /\ syncs' = Remember(syncs, r, contents, zonefile_serial,
                               zonefile_mtime)
    /\ UNCHANGED <<conf, contents, ixfr_dbsync, op, notUpdVars>>

NextUpd ==
    \/ ProcessUpdateBegin
    \/ StoreFirst
    \/ StoreFlush
    \/ StoreSecond
    \/ ProcessUpdateFinish
    \/ StoreAndApplyBegin
    \/ StoreAndApplyFinish
    \/ DoDiffAndSignBegin
    \/ DoDiffAndSignFinish
    \/ FlushEv
    \/ ZonefileSync

SpecUpd == InitUpd /\ [][NextUpd]_vars

\* C1 (as stated): whenever zones_process_update_auth,
\* zones_store_and_apply_chgsets or zones_do_diff_and_sign returns with its
\* journal transaction committed, the new contents it produced are the
\* zone's current snapshot.
C1_CommittedImpliesInstalled ==
    (op.pc = "done" /\ op.committed /\ op.new_contents) => op.swapped

\* C2 (as stated): when zones_store_changesets_begin_and_store returns after
\* a first store attempt that failed with KNOT_EBUSY, the flush was invoked
\* exactly once and the store attempted exactly one more time, with at most
\* one zonefile write; after a first failure of another kind there was
\* neither a flush nor a retry.
C2_FlushOnceRetryOnce ==
    (op.pc = "post" /\ op.first # "none") =>
        /\ op.first = "KNOT_EBUSY" =>
              (op.flushes = 1 /\ op.attempts = 2 /\ op.writes <= 1)
        /\ op.first # "KNOT_EBUSY" => (op.flushes = 0 /\ op.attempts = 1)

C8_SuccessReportedConsistently ==
    (op.pc = "done" /\ op.name = "update") =>
        IF op.swapped \/ op.noop
        THEN op.ret = "KNOT_EOK" /\ op.rcode = "KNOT_RCODE_NOERROR"
        ELSE /\ op.ret # "KNOT_EOK"
             /\ op.rcode \in ApplicatorRcodes

\* C19 (as stated): with dbsync_timeout == 0, when a journaling operation
\* (DDNS update, IXFR/DNSSEC apply, reload diff and sign) returns KNOT_EOK
\* having committed to the journal and installed new contents, the flush
\* event is scheduled to fire at once.
C19_ImmediateFlushAfterCommit ==
    [][(/\ op.pc # "done" /\ op'.pc = "done"
        /\ op'.ret = "KNOT_EOK" /\ op'.committed /\ op'.swapped
        /\ conf.dbsync_timeout = 0) =>
          ixfr_dbsync' = Armed(0)]_vars

\* ---------------------------------------------------------------------
\* SpecRcu: threads that read nameserver->zone_db and zone->contents inside
\* rcu_read_lock / rcu_read_unlock, against zones_expire_ev, which removes
\* the contents, and zones_ns_conf_hook, which replaces the database.
\* Databases and snapshots are numbered in the order they are created.
\* ---------------------------------------------------------------------
NumReaders  == 2        \* reader threads
MaxDbs      == 2        \* zone databases created (reconfigurations + 1)
MaxContents == 2        \* snapshots created for the zone

Readers == 1..NumReaders

InitRcu ==
    /\ zone_db = 1
    /\ zone_contents = 1
    /\ freed = [db |-> {}, zc |-> {}]
    /\ readers = [r \in Readers |-> ReaderOut]
    /\ expire_ev = NotRunning
    /\ conf_hook = NotRunning
    /\ SerUnused
    /\ LoadUnused
    /\ UpdUnused
    /\ XfrUnused
    /\ SignUnused
    /\ RestUnused

\* synchronize_rcu(): the call returns when every read-side critical
\* section that is open when the call is made has been left.
synchronize_rcu(rs) == {r \in Readers : rs[r].pc # "out"}

\* rcu_read_unlock of reader r as a waiting synchronize_rcu sees it.
Left(h, r) == [h EXCEPT !.waiting = @ \ {r}]

\* --- readers: zones_soa_timer, zones_process_response --------------------
ReaderLock(r) ==
    /\ readers[r].pc = "out"
    /\ readers' = [readers EXCEPT ![r].pc = "in"]
    /\ UNCHANGED <<zone_db, zone_contents, freed, expire_ev, conf_hook,
                   notRcuVars>>

\* knot_zonedb_find(nameserver->zone_db, name)
ReaderFindZone(r) ==
    /\ readers[r].pc = "in"
    /\ readers' = [readers EXCEPT ![r].pc = "db", ![r].db = zone_db]
    /\ UNCHANGED <<zone_db, zone_contents, freed, expire_ev, conf_hook,
                   notRcuVars>>

\* zone->contents of the zone found
ReaderContents(r) ==
    /\ readers[r].pc = "db"
    /\ readers' = [readers EXCEPT ![r].pc = "zc", ![r].zc = zone_contents]
    /\ UNCHANGED <<zone_db, zone_contents, freed, expire_ev, conf_hook,
                   notRcuVars>>

ReaderUnlock(r) ==
    /\ readers[r].pc # "out"
    /\ readers' = [readers EXCEPT ![r] = ReaderOut]
    /\ expire_ev' = Left(expire_ev, r)
    /\ conf_hook' = Left(conf_hook, r)
    /\ UNCHANGED <<zone_db, zone_contents, freed,
                   notRcuVars>>

\* --- zones_expire_ev on a zone that is not discarded ---------------------
\* A mutant that goes on to cancel and free without synchronize_rcu.
zones_expire_ev_unsynced(pc) ==
    CASE pc = "idle" -> "expire"
      [] pc = "expire" -> "finished"
      [] pc = "finished" -> "cancel"
      [] pc = "sync" -> "wait"
      [] pc = "wait" -> "cancel"
      [] pc = "cancel" -> "free"
      [] pc = "free" -> "idle"

\* The order of the statements of zones_expire_ev.
zones_expire_ev(pc) ==
    CASE pc = "idle" -> "expire"
      [] pc = "expire" -> "finished"
      [] pc = "finished" -> "sync"
      [] pc = "sync" -> "wait"
      [] pc = "wait" -> "cancel"
      [] pc = "cancel" -> "free"
      [] pc = "free" -> "idle"

\* rcu_read_lock, the ZONE_DISCARDED test, zone_retain, rcu_read_unlock
ExpireBegin ==
    /\ expire_ev.pc = "idle"
    /\ expire_ev' = [NotRunning EXCEPT !.pc = zones_expire_ev("idle")]
    /\ UNCHANGED <<zone_db, zone_contents, freed, readers, conf_hook,
                   notRcuVars>>

\* knot_zonedb_expire_zone: NULL is published, the old contents returned
ExpireZone ==
    /\ expire_ev.pc = "expire"
    /\ expire_ev' = [expire_ev EXCEPT !.pc = zones_expire_ev("expire"),
                                      !.old = zone_contents]
    /\ zone_contents' = 0
    /\ UNCHANGED <<zone_db, freed, readers, conf_hook,
                   notRcuVars>>

\* evsched_event_finished(e->parent)
ExpireFinished ==
    /\ expire_ev.pc = "finished"
    /\ expire_ev' = [expire_ev EXCEPT !.pc = zones_expire_ev("finished")]
    /\ UNCHANGED <<zone_db, zone_contents, freed, readers, conf_hook,
                   notRcuVars>>

ExpireSynchronize ==
    /\ expire_ev.pc = "sync"
    /\ expire_ev' = [expire_ev EXCEPT !.pc = zones_expire_ev("sync"),
                                      !.waiting = synchronize_rcu(readers),
                                      !.waited = synchronize_rcu(readers) # {}]
    /\ UNCHANGED <<zone_db, zone_contents, freed, readers, conf_hook,
                   notRcuVars>>

ExpireSynchronized ==
    /\ expire_ev.pc = "wait"
    /\ expire_ev.waiting = {}
    /\ expire_ev' = [expire_ev EXCEPT !.pc = zones_expire_ev("wait")]
    /\ UNCHANGED <<zone_db, zone_contents, freed, readers, conf_hook,
                   notRcuVars>>

\* evsched_cancel of the REFRESH timer
ExpireCancel ==
    /\ expire_ev.pc = "cancel"
    /\ expire_ev' = [expire_ev EXCEPT !.pc = zones_expire_ev("cancel")]
    /\ UNCHANGED <<zone_db, zone_contents, freed, readers, conf_hook,
                   notRcuVars>>

\* knot_zone_contents_deep_free(&contents), zone_release
ExpireFree ==
    /\ expire_ev.pc = "free"
    /\ freed' = [freed EXCEPT !.zc = @ \cup (IF expire_ev.old = 0 THEN {}
                                            ELSE {expire_ev.old})]
    /\ expire_ev' = [expire_ev EXCEPT !.pc = zones_expire_ev("free")]
    /\ UNCHANGED <<zone_db, zone_contents, readers, conf_hook,
                   notRcuVars>>

\* --- zones_ns_conf_hook --------------------------------------------------
\* zones_update_db_from_config: a new database is published and the old
\* one handed back; when it fails the hook returns at once.  The zone and
\* its contents are carried over to the new database.
ConfHookUpdateDb ==
    /\ conf_hook.pc = "idle"
    /\ zone_db < MaxDbs
    /\ \E ok \in BOOLEAN :
          IF ok
          THEN /\ zone_db' = zone_db + 1
               /\ conf_hook' = [NotRunning EXCEPT !.pc = "sync",
                                                  !.old = zone_db]
          ELSE /\ conf_hook' = NotRunning
               /\ UNCHANGED zone_db
    /\ UNCHANGED <<zone_contents, freed, readers, expire_ev,
                   notRcuVars>>

ConfHookSynchronize ==
    /\ conf_hook.pc = "sync"
    /\ conf_hook' = [conf_hook EXCEPT !.pc = "wait",
                                      !.waiting = synchronize_rcu(readers),
                                      !.waited = synchronize_rcu(readers) # {}]
    /\ UNCHANGED <<zone_db, zone_contents, freed, readers, expire_ev,
                   notRcuVars>>

ConfHookSynchronized ==
    /\ conf_hook.pc = "wait"
    /\ conf_hook.waiting = {}
    /\ conf_hook' = [conf_hook EXCEPT !.pc = "free"]
    /\ UNCHANGED <<zone_db, zone_contents, freed, readers, expire_ev,
                   notRcuVars>>

\* knot_zonedb_deep_free(&old_db), then the events of every zone of the
\* new database are rescheduled (these timers are not part of SpecRcu).
ConfHookFree ==
    /\ conf_hook.pc = "free"
    /\ freed' = [freed EXCEPT !.db = @ \cup {conf_hook.old}]
    /\ conf_hook' = [conf_hook EXCEPT !.pc = "idle"]
    /\ UNCHANGED <<zone_db, zone_contents, readers, expire_ev,
                   notRcuVars>>

\* --- a transfer gives the expired zone contents again --------------------
SetMax(S) == CHOOSE m \in S : \A x \in S : x <= m

\* xfrin_switch_zone on a zone without contents: the new snapshot is
\* published, there is no old one to free.
SwitchZone ==
    /\ zone_contents = 0
    /\ LET new == SetMax(freed.zc \cup {expire_ev.old, 0}) + 1 IN
       /\ new <= MaxContents
       /\ zone_contents' = new
    /\ UNCHANGED <<zone_db, freed, readers, expire_ev, conf_hook,
                   notRcuVars>>

NextRcu ==
    \/ \E r \in Readers : ReaderLock(r)
    \/ \E r \in Readers : ReaderFindZone(r)
    \/ \E r \in Readers : ReaderContents(r)
    \/ \E r \in Readers : ReaderUnlock(r)
    \/ ExpireBegin
    \/ ExpireZone
    \/ ExpireFinished
    \/ ExpireSynchronize
    \/ ExpireSynchronized
    \/ ExpireCancel
    \/ ExpireFree
    \/ ConfHookUpdateDb
    \/ ConfHookSynchronize
    \/ ConfHookSynchronized
    \/ ConfHookFree
    \/ SwitchZone

SpecRcu == InitRcu /\ [][NextRcu]_vars

\* C3: no reader holds, inside the read-side critical section in which it
\* obtained it, a database or a snapshot that has been freed; and neither
\* handler has freed what it took away while its synchronize_rcu has not
\* returned.
C3_NoReaderOfFreed ==
    /\ \A r \in Readers :
          /\ readers[r].db \notin freed.db
          /\ readers[r].zc \notin freed.zc
    /\ expire_ev.pc \in {"expire", "finished", "sync", "wait"}
          => expire_ev.old \notin freed.zc
    /\ conf_hook.pc \in {"sync", "wait"} => conf_hook.old \notin freed.db

\* Both handlers have freed what they took away after waiting for a reader
\* that held it, while a reader is inside a section.
C3_Witness ==
    /\ expire_ev.pc = "idle" /\ expire_ev.waited
    /\ expire_ev.old \in freed.zc
    /\ conf_hook.pc = "idle" /\ conf_hook.waited
    /\ conf_hook.old \in freed.db
    /\ \E r \in Readers : readers[r].pc = "zc"

\* ---------------------------------------------------------------------
\* SpecXfr: worker threads in zones_process_response and
\* zones_schedule_refresh on one zone, the zone mutex, the REFRESH and
\* EXPIRE timers and the queue of transfer tasks.
\* ---------------------------------------------------------------------
MaxQueue == 2           \* tasks the transfer queue takes before it refuses

\* Two worker threads: enough for every pair of calls to overlap.
Workers == {1, 2}

ZONES_JITTER_PCT == 10
REFRESH_DEFAULT == 0 - 1

\* SOA refresh values in seconds; the larger one, in milliseconds and
\* times 100, does not fit 32 bits.
SoaRefreshes == {600, 86400}
\* SOA retry and expire values in seconds; the larger expire value, in
\* milliseconds and times 100, does not fit 32 bits.
SoaRetries == {60}
SoaExpires == {3600, 604800}
\* conf()->max_conn_idle, in seconds
MaxConnIdles == {0, 60}
\* values of knot_random_uint32_t()
Rands == {0, 5, 9, 10}
BootstrapRetry == 30 * 1000

\* (a * m) mod 2^32, then divided by 100, for a below 2^31 and m up to
\* 100: the 32-bit product is computed by 16-bit halves and the division
\* done half by half, so that no intermediate value leaves the integers
\* the checker can hold.
Half == 256 * 256
MulUint32Div100(a, m) ==
    LET lo == (a % Half) * m
        hi == ((a \div Half) * m + (lo \div Half)) % Half
    IN ((hi \div 100) * Half) + (((hi % 100) * Half + (lo % Half)) \div 100)

zones_jitter(interval, rnd) ==
    MulUint32Div100(interval, 100 - (rnd % ZONES_JITTER_PCT))

\* zones_soa_timer with knot_rdata_soa_refresh: milliseconds, 0 without
\* contents.  The SOA values used are below 2^32 / 1000 seconds, so the
\* 32-bit product is the product.
zones_soa_refresh(z) ==
    IF z.contents = 0 THEN 0 ELSE z.refresh * 1000

\* zones_soa_timer with knot_rdata_soa_retry
zones_soa_retry(z) ==
    IF z.contents = 0 THEN 0 ELSE z.retry * 1000

\* zones_soa_timer with knot_rdata_soa_expire
zones_soa_expire(z) ==
    IF z.contents = 0 THEN 0 ELSE z.expire * 1000

\* xfrin_transfer_needed: positive when the remote serial is newer.
xfrin_transfer_needed(local, remote) == IF remote > local THEN 1 ELSE 0

zones_transfer_to_use(z) ==
    IF ~z.ixfr_db THEN "XFR_TYPE_AIN" ELSE "XFR_TYPE_IIN"

\* A mutant that arms the REFRESH timer without looking at has_master.
zones_schedule_refresh_any(x, z, time, rnd) ==
    LET t == IF time < 0
             THEN IF z.contents # 0
                  THEN zones_jitter(zones_soa_refresh(z), rnd)
                  ELSE x.bootstrap_retry
             ELSE time IN
    [x EXCEPT !.state = "XFR_SCHED", !.timer = Armed(t)]

\* A mutant that leaves the state XFR_IDLE after arming the timer.
zones_schedule_refresh_idle(x, z, time, rnd) ==
    LET t == IF time < 0
             THEN IF z.contents # 0
                  THEN zones_jitter(zones_soa_refresh(z), rnd)
                  ELSE x.bootstrap_retry
             ELSE time IN
    IF x.has_master
    THEN [x EXCEPT !.state = "XFR_IDLE", !.timer = Armed(t)]
    ELSE [x EXCEPT !.state = "XFR_IDLE"]

\* zones_schedule_refresh, the part under zone->lock.
zones_schedule_refresh(x, z, time, rnd) ==
    LET t == IF time < 0
             THEN IF z.contents # 0
                  THEN zones_jitter(zones_soa_refresh(z), rnd)
                  ELSE x.bootstrap_retry
             ELSE time IN
    IF x.has_master
    THEN [x EXCEPT !.state = "XFR_SCHED", !.timer = Armed(t)]
    ELSE [x EXCEPT !.state = "XFR_IDLE"]

NoCall ==
    [call |-> "none", pc |-> "idle", ret |-> "none", path |-> "none",
     time |-> 0, was_pending |-> FALSE, enq |-> 0, rqtype |-> "none",
     state_after |-> "none", timer_after |-> Unarmed]

InitXfr ==
    /\ zone \in [contents : {0, 1}, refresh : SoaRefreshes,
                 retry : SoaRetries, expire : {3600},
                 max_conn_idle : {60}, ixfr_db : BOOLEAN]
    /\ xfr_in \in [state : {"XFR_IDLE"}, has_master : BOOLEAN,
                   timer : {Unarmed}, expire : {NullEvent},
                   bootstrap_retry : {BootstrapRetry}]
    /\ lock = 0
    /\ xfr_queue = <<>>
    /\ thr = [w \in Workers |-> NoCall]
    /\ ev = NoTick
    /\ SerUnused
    /\ LoadUnused
    /\ UpdUnused
    /\ RcuUnused
    /\ SignUnused
    /\ RestUnused

Free(w) == thr[w].pc \in {"idle", "done"}

\* The handler of the named timer is executing and has not declared its
\* event finished: evsched_cancel of that timer waits.
Executing(name) == ev.name = name /\ ev.pc # "idle" /\ ~ev.finished

\* Worker w is inside the read-side critical section that
\* zones_process_response holds from its entry to the rcu_read_unlock
\* before xfr_enqueue or to its return.
InRcu(w) ==
    /\ thr[w].call = "response"
    /\ thr[w].pc \in {"refresh_cancel", "refresh_cancel_expire",
                      "refresh_lock", "lock", "create"}

\* rcu_read_unlock of worker w: a synchronize_rcu in progress no longer
\* waits for it.
rcu_read_unlock(w) == ev' = [ev EXCEPT !.waiting = @ \ {w}]

\* The call of worker w returns ret; what it leaves in xfr_in is x.
Return(w, f, ret, x) ==
    thr' = [thr EXCEPT ![w] = [f EXCEPT !.pc = "done", !.ret = ret,
                                        !.state_after = x.state,
                                        !.timer_after = x.timer]]

\* --- zones_process_response ----------------------------------------------
Responses == {"rcode", "badid", "cmp_err", "soa"}

\* Up to the comparison of the serials: an error RCODE, no zone contents,
\* an unexpected message ID or a failing comparison end the call.
ProcessResponseBegin(w) ==
    /\ Free(w)
    /\ \E resp \in Responses, remote \in Serials :
          LET f == [NoCall EXCEPT !.call = "response"] IN
          IF resp = "rcode" THEN Return(w, f, "KNOT_ERROR", xfr_in)
          ELSE IF zone.contents = 0 THEN Return(w, f, "KNOT_EINVAL", xfr_in)
          ELSE IF resp \in {"badid", "cmp_err"}
          THEN Return(w, f, "KNOT_ERROR", xfr_in)
          ELSE IF xfrin_transfer_needed(zone.contents, remote) = 0
          THEN thr' = [thr EXCEPT ![w] =
                          [f EXCEPT !.pc = "refresh_cancel",
                                    !.path = "uptodate",
                                    !.time = REFRESH_DEFAULT]]
          ELSE thr' = [thr EXCEPT ![w] =
                          [f EXCEPT !.pc = "lock", !.path = "newer"]]
    /\ UNCHANGED <<zone, xfr_in, lock, xfr_queue, ev, notXfrVars>>

\* The zone mutex is taken; a pending transfer ends the call.
ProcessResponseLock(w) ==
    /\ thr[w].pc = "lock"
    /\ lock = 0
    /\ IF xfr_in.state = "XFR_PENDING"
       THEN /\ Return(w, [thr[w] EXCEPT !.was_pending = TRUE], "KNOT_EOK",
                      xfr_in)
            /\ rcu_read_unlock(w)
            /\ UNCHANGED <<xfr_in, lock>>
       ELSE /\ lock' = w
            /\ xfr_in' = [xfr_in EXCEPT !.state = "XFR_PENDING"]
            /\ thr' = [thr EXCEPT ![w].pc = "create"]
            /\ UNCHANGED ev
    /\ UNCHANGED <<zone, xfr_queue, notXfrVars>>

\* xfr_task_create
ProcessResponseCreate(w) ==
    /\ thr[w].pc = "create"
    /\ \E ok \in BOOLEAN :
          IF ok
          THEN /\ thr' = [thr EXCEPT ![w].pc = "enqueue",
                                     ![w].rqtype = zones_transfer_to_use(zone)]
               /\ UNCHANGED lock
          ELSE /\ Return(w, thr[w], "KNOT_ENOMEM", xfr_in)
               /\ lock' = 0
    /\ rcu_read_unlock(w)
    /\ UNCHANGED <<zone, xfr_in, xfr_queue, notXfrVars>>

\* xfr_enqueue; a refused task is freed and the state reverted.
ProcessResponseEnqueue(w) ==
    /\ thr[w].pc = "enqueue"
    /\ \E ok \in BOOLEAN :
          IF ok
          THEN /\ Len(xfr_queue) < MaxQueue
               /\ xfr_queue' = Append(xfr_queue,
                                      [type |-> thr[w].rqtype,
                                       flags |-> "XFR_FLAG_TCP"])
               /\ Return(w, [thr[w] EXCEPT !.enq = 1], "KNOT_EOK", xfr_in)
               /\ UNCHANGED xfr_in
          ELSE /\ xfr_in' = [xfr_in EXCEPT !.state = "XFR_SCHED"]
               /\ Return(w, thr[w], "KNOT_EOK", xfr_in')
               /\ UNCHANGED xfr_queue
    /\ lock' = 0
    /\ UNCHANGED <<zone, ev, notXfrVars>>

\* --- zones_schedule_refresh ----------------------------------------------
\* evsched_cancel of the REFRESH timer: it returns once no handler of
\* that timer is executing.
ScheduleRefreshCancel(w) ==
    /\ thr[w].pc = "refresh_cancel"
    /\ ~Executing("refresh")
    /\ xfr_in' = [xfr_in EXCEPT !.timer = Unarmed]
    /\ thr' = [thr EXCEPT ![w].pc = "refresh_cancel_expire"]
    /\ UNCHANGED <<zone, lock, xfr_queue, ev, notXfrVars>>

\* evsched_cancel of the EXPIRE timer when its handle is not NULL; the
\* handle is kept.
ScheduleRefreshCancelExpire(w) ==
    /\ thr[w].pc = "refresh_cancel_expire"
    /\ IF xfr_in.expire = NullEvent
       THEN UNCHANGED xfr_in
       ELSE /\ ~Executing("expire")
            /\ xfr_in' = [xfr_in EXCEPT !.expire = Unarmed]
    /\ thr' = [thr EXCEPT ![w].pc = "refresh_lock"]
    /\ UNCHANGED <<zone, lock, xfr_queue, ev, notXfrVars>>

\* The part under the mutex; zones_process_response then returns
\* KNOT_EUPTODATE.
ScheduleRefreshLocked(w) ==
    /\ thr[w].pc = "refresh_lock"
    /\ lock = 0
    /\ \E rnd \in Rands :
          /\ xfr_in' = zones_schedule_refresh(xfr_in, zone, thr[w].time, rnd)
          /\ Return(w, thr[w],
                    IF thr[w].call = "response" THEN "KNOT_EUPTODATE"
                    ELSE "KNOT_EOK", xfr_in')
    /\ rcu_read_unlock(w)
    /\ UNCHANGED <<zone, lock, xfr_queue, notXfrVars>>

\* zones_ns_conf_hook: zones_schedule_refresh(zone, 0) for every zone
ConfHookReschedule(w) ==
    /\ Free(w)
    /\ thr' = [thr EXCEPT ![w] = [NoCall EXCEPT !.call = "schedule_refresh",
                                               !.pc = "refresh_cancel",
                                               !.time = 0]]
    /\ UNCHANGED <<zone, xfr_in, lock, xfr_queue, ev, notXfrVars>>

\* A task leaves the queue.  The worker that ran a transfer reschedules
\* the refresh; the answer to an SOA probe is handled by
\* zones_process_response.
XfrTaskFinish(w) ==
    /\ Free(w)
    /\ xfr_queue # <<>>
    /\ xfr_queue' = Tail(xfr_queue)
    /\ thr' = [thr EXCEPT ![w] =
                  IF Head(xfr_queue).type = "XFR_TYPE_SOA"
                  THEN NoCall
                  ELSE [NoCall EXCEPT !.call = "schedule_refresh",
                                      !.pc = "refresh_cancel",
                                      !.time = REFRESH_DEFAULT]]
    /\ UNCHANGED <<zone, xfr_in, lock, ev, notXfrVars>>

NextXfr ==
    \/ \E w \in Workers : ProcessResponseBegin(w)
    \/ \E w \in Workers : ProcessResponseLock(w)
    \/ \E w \in Workers : ProcessResponseCreate(w)
    \/ \E w \in Workers : ProcessResponseEnqueue(w)
    \/ \E w \in Workers : ScheduleRefreshCancel(w)
    \/ \E w \in Workers : ScheduleRefreshCancelExpire(w)
    \/ \E w \in Workers : ScheduleRefreshLocked(w)
    \/ \E w \in Workers : ConfHookReschedule(w)
    \/ \E w \in Workers : XfrTaskFinish(w)

SpecXfr == InitXfr /\ [][NextXfr]_vars

\* The largest interval whose product with 100 fits 32 bits.
MaxExactInterval == (Half \div 100) * Half + ((Half % 100) * Half) \div 100

\* The timer values zones_jitter can give for the SOA refresh of the zone.
JitteredRefresh ==
    {Armed(zones_jitter(zones_soa_refresh(zone), rnd)) : rnd \in Rands}

Uptodate(w) ==
    thr[w].call = "response" /\ thr[w].pc = "done" /\ thr[w].path = "uptodate"

C10_PendingAndOneTransfer ==
    /\ \A w \in Workers :
          /\ thr[w].pc \in {"create", "enqueue"} => lock = w
          /\ (thr[w].call = "response" /\ thr[w].pc = "done"
                /\ thr[w].path = "newer") =>
                IF thr[w].was_pending
                THEN thr[w].enq = 0 /\ thr[w].state_after = "XFR_PENDING"
                ELSE /\ thr[w].state_after = "XFR_PENDING"
                     /\ thr[w].enq = 1
                     /\ thr[w].rqtype = (IF zone.ixfr_db THEN "XFR_TYPE_IIN"
                                         ELSE "XFR_TYPE_AIN")
    /\ Len(xfr_queue) <= 1

\* ---------------------------------------------------------------------
\* SpecEv: the scheduler thread runs zones_refresh_ev and zones_expire_ev
\* when the REFRESH and the EXPIRE timer of the zone fire, next to one
\* worker thread in zones_process_response and zones_schedule_refresh.
\* The scheduler runs one handler at a time; a timer that fired is no
\* longer armed, its handle stays.
\* ---------------------------------------------------------------------
EvWorkers == {1}
\* the owner of zone->lock when the scheduler thread holds it
Scheduler == Cardinality(Workers) + 1

InitEv ==
    /\ zone \in [contents : {0, 1}, refresh : {600}, retry : SoaRetries,
                 expire : SoaExpires, max_conn_idle : MaxConnIdles,
                 ixfr_db : {FALSE}]
    /\ xfr_in \in [state : {"XFR_IDLE"}, has_master : BOOLEAN,
                   timer : {Unarmed}, expire : {NullEvent},
                   bootstrap_retry : {BootstrapRetry}]
    /\ lock = 0
    /\ xfr_queue = <<>>
    /\ thr = [w \in Workers |-> NoCall]
    /\ ev = NoTick
    /\ SerUnused
    /\ LoadUnused
    /\ UpdUnused
    /\ RcuUnused
    /\ SignUnused
    /\ RestUnused

\* The handler returns ret; a request that was not enqueued is freed.
TickReturn(ret, rq) ==
    [ev EXCEPT !.pc = "idle", !.ret = ret, !.rq = rq, !.finished = FALSE]

\* --- zones_refresh_ev ----------------------------------------------------
\* The REFRESH timer fires.  Up to the test of zone->contents: the zone is
\* not discarded, xfr_task_create gives the SOA request or fails.
RefreshEvBegin ==
    /\ ev.pc = "idle"
    /\ xfr_in.timer.armed
    /\ xfr_in' = [xfr_in EXCEPT !.timer = Unarmed]
    /\ \E created \in BOOLEAN :
          LET f == [NoTick EXCEPT !.name = "refresh"] IN
          IF ~created
          THEN ev' = [f EXCEPT !.ret = "KNOT_EINVAL"]
          ELSE ev' = [f EXCEPT !.rq = "XFR_TYPE_SOA",
                               !.pc = IF zone.contents = 0 THEN "bootstrap"
                                      ELSE "expire"]
    /\ UNCHANGED <<zone, lock, xfr_queue, thr, notXfrVars>>

\* No contents: the request becomes an AXFR over TCP and the event is
\* declared finished before the mutex is taken.
RefreshEvBootstrapFinished ==
    /\ ev.name = "refresh" /\ ev.pc = "bootstrap"
    /\ ev' = [ev EXCEPT !.rq = "XFR_TYPE_AIN", !.finished = TRUE,
                        !.pc = "lock"]
    /\ UNCHANGED <<zone, xfr_in, lock, xfr_queue, thr, notXfrVars>>

\* pthread_mutex_lock; a pending transfer ends the handler.
RefreshEvBootstrapLock ==
    /\ ev.name = "refresh" /\ ev.pc = "lock"
    /\ lock = 0
    /\ IF xfr_in.state = "XFR_PENDING"
       THEN /\ ev' = TickReturn("KNOT_EOK", "none")
            /\ UNCHANGED <<xfr_in, lock>>
       ELSE /\ lock' = Scheduler
            /\ xfr_in' = [xfr_in EXCEPT !.state = "XFR_PENDING"]
            /\ ev' = [ev EXCEPT !.pc = "enqueue"]
    /\ UNCHANGED <<zone, xfr_queue, thr, notXfrVars>>

\* xfr_enqueue of the AXFR; a refused task is freed and the state reverted.
RefreshEvBootstrapEnqueue ==
    /\ ev.name = "refresh" /\ ev.pc = "enqueue"
    /\ \E ok \in BOOLEAN :
          IF ok
          THEN /\ Len(xfr_queue) < MaxQueue
               /\ xfr_queue' = Append(xfr_queue,
                                      [type |-> ev.rq,
                                       flags |-> "XFR_FLAG_TCP"])
               /\ ev' = TickReturn("KNOT_EOK", ev.rq)
               /\ UNCHANGED xfr_in
          ELSE /\ xfr_in' = [xfr_in EXCEPT !.state = "XFR_SCHED"]
               /\ ev' = TickReturn("KNOT_ERROR", "none")
               /\ UNCHANGED xfr_queue
    /\ lock' = 0
    /\ UNCHANGED <<zone, thr, notXfrVars>>

\* expire_tmr of zones_refresh_ev.  The jittered value is below 2^32 / 100,
\* so the 32-bit sum is the sum.
zones_expire_tmr(z, rnd) ==
    zones_jitter(zones_soa_expire(z), rnd) + 2 * (z.max_conn_idle * 1000)

\* With contents: the EXPIRE timer is created and armed when the handle
\* is NULL.  The handle is read and written without zone->lock.
RefreshEvExpire ==
    /\ ev.name = "refresh" /\ ev.pc = "expire"
    /\ IF xfr_in.expire = NullEvent
       THEN \E rnd \in Rands :
               xfr_in' = [xfr_in EXCEPT
                             !.expire = Armed(zones_expire_tmr(zone, rnd))]
       ELSE UNCHANGED xfr_in
    /\ ev' = [ev EXCEPT !.pc = "retry"]
    /\ UNCHANGED <<zone, lock, xfr_queue, thr, notXfrVars>>

\* The handler re-arms its own event after the jittered SOA retry interval
\* and declares the event finished.
RefreshEvRetry ==
    /\ ev.name = "refresh" /\ ev.pc = "retry"
    /\ \E rnd \in Rands :
          xfr_in' = [xfr_in EXCEPT
                        !.timer = Armed(zones_jitter(zones_soa_retry(zone),
                                                     rnd))]
    /\ ev' = [ev EXCEPT !.finished = TRUE, !.pc = "probe"]
    /\ UNCHANGED <<zone, lock, xfr_queue, thr, notXfrVars>>

\* xfr_enqueue of the SOA probe; a refused task is freed.
RefreshEvProbe ==
    /\ ev.name = "refresh" /\ ev.pc = "probe"
    /\ \E ok \in BOOLEAN :
          IF ok
          THEN /\ Len(xfr_queue) < MaxQueue
               /\ xfr_queue' = Append(xfr_queue,
                                      [type |-> ev.rq,
                                       flags |-> "XFR_FLAG_TCP"])
               /\ ev' = TickReturn("KNOT_EOK", ev.rq)
          ELSE /\ ev' = TickReturn("KNOT_ERROR", "none")
               /\ UNCHANGED xfr_queue
    /\ UNCHANGED <<zone, xfr_in, lock, thr, notXfrVars>>

\* --- zones_expire_ev -----------------------------------------------------
\* The EXPIRE timer fires on a zone that is not discarded.
ExpireEvBegin ==
    /\ ev.pc = "idle"
    /\ xfr_in.expire.armed
    /\ xfr_in' = [xfr_in EXCEPT !.expire = Unarmed]
    /\ ev' = [NoTick EXCEPT !.name = "expire",
                            !.pc = zones_expire_ev("idle")]
    /\ UNCHANGED <<zone, lock, xfr_queue, thr, notXfrVars>>

\* knot_zonedb_expire_zone: the zone has no contents any more.
ExpireEvZone ==
    /\ ev.name = "expire" /\ ev.pc = "expire"
    /\ zone' = [zone EXCEPT !.contents = 0]
    /\ ev' = [ev EXCEPT !.pc = zones_expire_ev("expire")]
    /\ UNCHANGED <<xfr_in, lock, xfr_queue, thr, notXfrVars>>

\* A mutant that goes on without evsched_event_finished.
ExpireEvNotFinished ==
    /\ ev.name = "expire" /\ ev.pc = "finished"
    /\ ev' = [ev EXCEPT !.pc = zones_expire_ev("finished")]
    /\ UNCHANGED <<zone, xfr_in, lock, xfr_queue, thr, notXfrVars>>

\* evsched_event_finished(e->parent)
ExpireEvFinished ==
    /\ ev.name = "expire" /\ ev.pc = "finished"
    /\ ev' = [ev EXCEPT !.finished = TRUE,
                        !.pc = zones_expire_ev("finished")]
    /\ UNCHANGED <<zone, xfr_in, lock, xfr_queue, thr, notXfrVars>>

\* synchronize_rcu is called: it waits for the threads that are inside a
\* read-side critical section now.
ExpireEvSynchronize ==
    /\ ev.name = "expire" /\ ev.pc = "sync"
    /\ ev' = [ev EXCEPT !.waiting = {w \in Workers : InRcu(w)},
                        !.pc = zones_expire_ev("sync")]
    /\ UNCHANGED <<zone, xfr_in, lock, xfr_queue, thr, notXfrVars>>

\* synchronize_rcu returns.
ExpireEvSynchronized ==
    /\ ev.name = "expire" /\ ev.pc = "wait"
    /\ ev.waiting = {}
    /\ ev' = [ev EXCEPT !.pc = zones_expire_ev("wait")]
    /\ UNCHANGED <<zone, xfr_in, lock, xfr_queue, thr, notXfrVars>>

\* evsched_cancel of the REFRESH timer, whose handler cannot be executing
\* on this thread.
ExpireEvCancel ==
    /\ ev.name = "expire" /\ ev.pc = "cancel"
    /\ xfr_in' = [xfr_in EXCEPT !.timer = Unarmed]
    /\ ev' = [ev EXCEPT !.pc = zones_expire_ev("cancel")]
    /\ UNCHANGED <<zone, lock, xfr_queue, thr, notXfrVars>>

\* knot_zone_contents_deep_free, zone_release, return KNOT_EOK
ExpireEvFree ==
    /\ ev.name = "expire" /\ ev.pc = "free"
    /\ ev' = TickReturn("KNOT_EOK", "none")
    /\ UNCHANGED <<zone, xfr_in, lock, xfr_queue, thr, notXfrVars>>

WorkerStep(w) ==
    \/ ProcessResponseLock(w)
    \/ ProcessResponseCreate(w)
    \/ ProcessResponseEnqueue(w)
    \/ ScheduleRefreshCancel(w)
    \/ ScheduleRefreshCancelExpire(w)
    \/ ScheduleRefreshLocked(w)

RefreshEvStep ==
    \/ RefreshEvBootstrapFinished
    \/ RefreshEvBootstrapLock
    \/ RefreshEvBootstrapEnqueue
    \/ RefreshEvExpire
    \/ RefreshEvRetry
    \/ RefreshEvProbe

ExpireEvStep ==
    \/ ExpireEvZone
    \/ ExpireEvFinished
    \/ ExpireEvSynchronize
    \/ ExpireEvSynchronized
    \/ ExpireEvCancel
    \/ ExpireEvFree

NextEv ==
    \/ \E w \in EvWorkers : ProcessResponseBegin(w)
    \/ \E w \in EvWorkers : ConfHookReschedule(w)
    \/ \E w \in EvWorkers : XfrTaskFinish(w)
    \/ \E w \in EvWorkers : WorkerStep(w)
    \/ RefreshEvBegin
    \/ RefreshEvStep
    \/ ExpireEvBegin
    \/ ExpireEvStep

SpecEv == InitEv /\ [][NextEv]_vars

\* zones_refresh_ev returns in this step.
RefreshEvReturns == ev.name = "refresh" /\ ev.pc # "idle" /\ ev'.pc = "idle"

\* C11 (as stated): when a refresh tick on a zone with a master and without
\* contents finds xfr_in.state not XFR_PENDING, the handler has, when it
\* returns, enqueued an AXFR-IN over TCP, set xfr_in.state to XFR_PENDING
\* and armed the REFRESH/RETRY timer.
C11_BootstrapTickArmsRetry ==
    [][(RefreshEvReturns /\ ev.pc = "enqueue" /\ xfr_in.has_master) =>
          /\ xfr_queue' = Append(xfr_queue, [type |-> "XFR_TYPE_AIN",
                                            flags |-> "XFR_FLAG_TCP"])
          /\ xfr_in'.state = "XFR_PENDING"
          /\ xfr_in'.timer.armed]_vars

\* zones_refresh_ev returns in this step without a request: xfr_task_create
\* failed after the timer fired.
RefreshEvFails ==
    /\ ev.pc = "idle" /\ ev'.pc = "idle" /\ ev'.name = "refresh"
    /\ xfr_in.timer.armed /\ ~xfr_in'.timer.armed
    /\ thr' = thr

\* The timer values zones_jitter can give for the SOA retry of the zone.
JitteredRetry ==
    {Armed(zones_jitter(zones_soa_retry(zone), rnd)) : rnd \in Rands}

\* C12 (as stated): when a refresh tick on a zone with a master and with
\* contents returns, the handler has enqueued an SOA probe, its timer is
\* armed as RETRY after the jittered SOA retry interval and xfr_in.state
\* is XFR_PENDING.
C12_ProbeTickLeavesPending ==
    [][(/\ (RefreshEvReturns /\ ev.pc = "probe") \/ RefreshEvFails
        /\ zone.contents # 0
        /\ xfr_in.has_master) =>
          /\ xfr_queue' = Append(xfr_queue, [type |-> "XFR_TYPE_SOA",
                                            flags |-> "XFR_FLAG_TCP"])
          /\ xfr_in'.timer \in JitteredRetry
          /\ xfr_in'.state = "XFR_PENDING"]_vars

\* C13 (as stated): whenever the refresh handler of a zone with contents
\* comes to its EXPIRE step while no EXPIRE timer is armed, the EXPIRE timer
\* is armed after that step, in the first refresh cycle and in every later
\* one (after zones_schedule_refresh cancelled the timer of an earlier
\* cycle).
C13_ExpireArmedInEveryCycle ==
    [][(/\ ev.name = "refresh" /\ ev.pc = "expire" /\ ev'.pc = "retry"
        /\ ~xfr_in.expire.armed) =>
          xfr_in'.expire.armed]_vars

\* C14 (as stated): an armed EXPIRE timer is due no earlier than SOA expire
\* plus twice max_conn_idle, in milliseconds.
C14_ExpireNeverShorter ==
    xfr_in.expire.armed =>
       xfr_in.expire.after >= zone.expire * 1000
                                 + 2 * (zone.max_conn_idle * 1000)

\* C15 (as stated): the expire handler cancels the REFRESH timer, and when
\* it returns the zone has no contents and xfr_in.state is XFR_IDLE,
\* whatever the state was when the EXPIRE timer fired.
C15_ExpireLeavesIdle ==
    [][/\ (ev.name = "expire" /\ ev.pc = "cancel" /\ ev'.pc = "free") =>
             ~xfr_in'.timer.armed
       /\ (ev.name = "expire" /\ ev.pc = "free" /\ ev'.pc = "idle") =>
             /\ zone'.contents = 0
             /\ xfr_in'.state = "XFR_IDLE"]_vars

\* C16 (as stated): a transfer that cannot be enqueued in zones_refresh_ev
\* or in zones_process_response leaves xfr_in.state XFR_SCHED, and whenever
\* the state is XFR_SCHED after a refresh tick, while no handler and no
\* call is in progress, the REFRESH/RETRY timer is armed, so that another
\* refresh tick will fire.
C16_SchedHasTimer ==
    /\ \A w \in Workers :
          (thr[w].call = "response" /\ thr[w].pc = "done"
             /\ thr[w].path = "newer" /\ ~thr[w].was_pending
             /\ thr[w].ret = "KNOT_EOK" /\ thr[w].enq = 0) =>
                thr[w].state_after = "XFR_SCHED"
    /\ (/\ xfr_in.state = "XFR_SCHED"
        /\ ev.name = "refresh" /\ ev.pc = "idle"
        /\ \A w \in Workers : Free(w)) => xfr_in.timer.armed

\* The guarded fields of the zone that the next step of worker w reads or
\* writes.
WorkerAccess(w) ==
    CASE thr[w].pc = "refresh_cancel" -> {"xfr_in.timer"}
      [] thr[w].pc = "refresh_cancel_expire" -> {"xfr_in.expire"}
      [] thr[w].pc = "refresh_lock" -> {"xfr_in.state", "xfr_in.timer"}
      [] thr[w].pc \in {"lock", "enqueue"} -> {"xfr_in.state"}
      [] OTHER -> {}

\* The same for the next step of the handler on the scheduler thread.
HandlerAccess ==
    CASE ev.name = "refresh" /\ ev.pc = "expire" -> {"xfr_in.expire"}
      [] ev.name = "refresh" /\ ev.pc \in {"lock", "enqueue"}
            -> {"xfr_in.state"}
      [] ev.name = "expire" /\ ev.pc = "cancel" -> {"xfr_in.timer"}
      [] OTHER -> {}

\* The step is taken between pthread_mutex_lock and pthread_mutex_unlock
\* of zone->lock.
WorkerLocked(w) == thr[w].pc \in {"refresh_lock", "lock", "create", "enqueue"}
HandlerLocked == ev.name = "refresh" /\ ev.pc \in {"lock", "enqueue"}

\* C17 (as stated): every step that reads or writes xfr_in.state or a timer
\* handle of the zone is taken under the zone mutex, and no two threads are
\* about to access the same field outside the mutex.
C17_FieldsUnderMutex ==
    /\ \A w \in Workers : WorkerAccess(w) # {} => WorkerLocked(w)
    /\ HandlerAccess # {} => HandlerLocked
    /\ \A w \in Workers :
          (~WorkerLocked(w) /\ ~HandlerLocked) =>
             WorkerAccess(w) \cap HandlerAccess = {}

\* ---------------------------------------------------------------------
\* SpecEvFair: SpecEv where a thread that can take its next step inside a
\* call or a handler eventually takes it.  Threads run on their own OS
\* threads; nothing is assumed about when timers fire and calls begin.
\* A worker that waits in evsched_cancel or for the zone mutex is woken
\* when the handler declares its event finished or the mutex is released,
\* and the time between two ticks of a timer is long against a handler
\* run: a worker whose step is possible again and again takes it.
\* ---------------------------------------------------------------------
\* Whether a thread completes does not depend on the lengths of the timers:
\* one SOA expire value and one max_conn_idle.
InitEvFair ==
    /\ InitEv
    /\ zone.expire = 3600
    /\ zone.max_conn_idle = 60

SpecEvFair ==
    /\ InitEvFair
    /\ [][NextEv]_vars
    /\ \A w \in EvWorkers : SF_vars(WorkerStep(w))
    /\ WF_vars(RefreshEvStep)
    /\ WF_vars(ExpireEvStep)

\* Worker w is inside zones_schedule_refresh called from
\* zones_process_response, in its read-side critical section, at one of the
\* evsched_cancel calls.
CancelsInRcu(w) ==
    /\ InRcu(w)
    /\ thr[w].pc \in {"refresh_cancel", "refresh_cancel_expire"}

\* The handlers have declared their event finished before the steps that
\* can block: synchronize_rcu and evsched_cancel in zones_expire_ev, the
\* zone mutex and xfr_enqueue in zones_refresh_ev.
FinishedBeforeBlocking ==
    /\ (ev.name = "expire" /\ ev.pc \in {"sync", "wait", "cancel"})
          => ev.finished
    /\ (ev.name = "refresh" /\ ev.pc \in {"lock", "enqueue", "probe"})
          => ev.finished

\* C18: the handlers declare their event finished before they block, and
\* under fair scheduling a worker that cancels the timers inside its
\* read-side critical section always returns, and a handler that runs
\* always returns.
C18_CancelAndHandlerComplete ==
    /\ []FinishedBeforeBlocking
    /\ \A w \in EvWorkers : CancelsInRcu(w) ~> thr[w].pc = "done"
    /\ (ev.pc # "idle") ~> (ev.pc = "idle")

\* The expire handler waits in synchronize_rcu for a worker that is at the
\* evsched_cancel of the EXPIRE timer inside its read-side critical section.
C18_Witness ==
    /\ ev.name = "expire" /\ ev.pc = "wait" /\ ev.finished
    /\ \E w \in EvWorkers :
          /\ w \in ev.waiting
          /\ CancelsInRcu(w) /\ thr[w].pc = "refresh_cancel_expire"

\* ---------------------------------------------------------------------
\* SpecSign: zones_process_update_auth at the point where the UPDATE has
\* been applied: the old and the new contents differ in whatever the UPDATE
\* changed, and the update is signed when DNSSEC is enabled.  Of the
\* contents only the DNSKEY and NSEC3PARAM RRSets of the apex matter.
\* ---------------------------------------------------------------------
MaxKeyRdata == 2        \* RDATA values of an apex DNSKEY / NSEC3PARAM RRSet

\* An RRSet at the apex: its RDATA and its TTL, or none.
KeyTtls == {3600, 7200}
KeyRRSets == [rdata : 1..MaxKeyRdata, ttl : KeyTtls] \cup {NoKeys}
ApexKeys == [dnskey : KeyRRSets, nsec3param : KeyRRSets]

\* knot_rrset_equal with KNOT_RRSET_COMPARE_WHOLE, for two RRSets of the
\* same owner, class and type: the whole RRSets are compared.
knot_rrset_equal(r1, r2) == r1.rdata = r2.rdata /\ r1.ttl = r2.ttl

\* A mutant that only looks at the presence of the RRSet.
apex_rr_changed_presence(old_contents, new_contents, type) ==
    LET old_rr == old_contents[type]
        new_rr == new_contents[type] IN
    IF old_rr = NoKeys THEN new_rr # NoKeys
    ELSE IF new_rr = NoKeys THEN old_rr # NoKeys
    ELSE FALSE

apex_rr_changed(old_contents, new_contents, type) ==
    LET old_rr == old_contents[type]
        new_rr == new_contents[type] IN
    IF old_rr = NoKeys THEN new_rr # NoKeys
    ELSE IF new_rr = NoKeys THEN old_rr # NoKeys
    ELSE ~knot_rrset_equal(old_rr, new_rr)

zones_dnskey_changed(old_contents, new_contents) ==
    apex_rr_changed(old_contents, new_contents, "dnskey")

zones_nsec3param_changed(old_contents, new_contents) ==
    apex_rr_changed(old_contents, new_contents, "nsec3param")

InitSign ==
    /\ apex \in [old : ApexKeys, new : ApexKeys]
    /\ signing = NotSigned
    /\ conf \in [dnssec_enable : BOOLEAN, dbsync_timeout : {0},
                 serial_policy : {"CONF_SERIAL_INCREMENT"},
                 build_diffs : {FALSE}]
    /\ contents = 0
    /\ journal = <<>>
    /\ zonefile_serial = 0
    /\ zonefile_mtime = 0
    /\ ixfr_dbsync = Unarmed
    /\ op = NoOp
    /\ syncs = NoSync
    /\ SerUnused
    /\ LoadUnused
    /\ RcuUnused
    /\ XfrUnused
    /\ RestUnused

\* The signing step of zones_process_update_auth: nothing is signed without
\* DNSSEC; the signer that is called succeeds or fails.
SignUpdate ==
    /\ ~signing.done
    /\ IF conf.dnssec_enable
       THEN \E ret \in {"KNOT_EOK", "KNOT_ERROR"} :
               signing' =
                  [done |-> TRUE,
                   signer |-> IF zones_dnskey_changed(apex.old, apex.new)
                                 \/ zones_nsec3param_changed(apex.old,
                                                             apex.new)
                              THEN "knot_dnssec_zone_sign"
                              ELSE "knot_dnssec_sign_changeset",
                   ret |-> ret]
       ELSE signing' = [done |-> TRUE, signer |-> "none",
                        ret |-> "KNOT_EOK"]
    /\ UNCHANGED <<apex, serVars, loadVars, updVars, rcuVars, xfrVars,
                   restVars>>

NextSign == SignUpdate

SpecSign == InitSign /\ [][NextSign]_vars

U32(hi, lo) == [hi |-> hi, lo |-> lo]

\* the halves the serials and the clock are drawn from
SerialHalves == {0, 1, Half \div 2 - 1, Half \div 2, Half - 1}
Serials32 == {U32(hi, lo) : hi \in SerialHalves, lo \in {0, 1, Half - 1}}
\* time(NULL): a time_t, wider than 32 bits; 'top' is what lies above them
Times == [top : {0, 1}, hi : SerialHalves, lo : {0, 1, Half - 1}]

\* (uint32_t)a + 1
U32Inc(a) ==
    IF a.lo = Half - 1 THEN U32((a.hi + 1) % Half, 0)
    ELSE U32(a.hi, a.lo + 1)

\* (uint32_t)(a - b)
U32Sub(a, b) ==
    LET borrow == IF a.lo < b.lo THEN 1 ELSE 0
    IN U32((a.hi - b.hi - borrow) % Half, (a.lo - b.lo) % Half)

\* (uint32_t)time(NULL)
Uint32OfTime(t) == U32(t.hi, t.lo)

\* The serial comparison of RFC 1982: 0 for equal serials, 1 when s1 is
\* the greater one (s1 - s2 in 1 .. 2^31 - 1 modulo 2^32), -1 otherwise.
ns_serial_compare(s1, s2) ==
    IF s1 = s2 THEN 0
    ELSE IF U32Sub(s1, s2).hi < Half \div 2 THEN 1 ELSE 0 - 1

\* zones_next_serial with the comparison done on the new serial first
zones_next_serial_swapped(old_serial, policy, now) ==
    LET new_serial == IF policy = "CONF_SERIAL_INCREMENT"
                      THEN U32Inc(old_serial)
                      ELSE Uint32OfTime(now)
    IN [serial |-> new_serial,
        warned |-> ns_serial_compare(new_serial, old_serial) >= 0]

\* zones_next_serial in 32 bits, with the warning it logs
zones_next_serial_uint32(old_serial, policy, now) ==
    LET new_serial == IF policy = "CONF_SERIAL_INCREMENT"
                      THEN U32Inc(old_serial)
                      ELSE Uint32OfTime(now)
    IN [serial |-> new_serial,
        warned |-> ns_serial_compare(old_serial, new_serial) >= 0]

\* the specifications above at rest
CoreUnused ==
    /\ SerUnused
    /\ LoadUnused
    /\ UpdUnused
    /\ RcuUnused
    /\ XfrUnused
    /\ SignUnused

NotNumUnused    == CoreUnused /\ DnssecUnused /\ RetainUnused /\ DumpUnused
NotDnssecUnused == CoreUnused /\ NumUnused /\ RetainUnused /\ DumpUnused
NotRetainUnused == CoreUnused /\ NumUnused /\ DnssecUnused /\ DumpUnused
NotDumpUnused   == CoreUnused /\ NumUnused /\ DnssecUnused /\ RetainUnused

InitSerial ==
    /\ num \in [fn : {"zones_next_serial"}, old : Serials32,
                policy : {"CONF_SERIAL_INCREMENT", "CONF_SERIAL_UNIXTIME"},
                now : Times, done : {FALSE}, serial : {U32(0, 0)},
                warned : {FALSE}]
    /\ NotNumUnused

NextSerialCall ==
    /\ num.fn = "zones_next_serial"
    /\ ~num.done
    /\ LET r == zones_next_serial_uint32(num.old, num.policy, num.now)
       IN num' = [num EXCEPT !.done = TRUE, !.serial = r.serial,
                             !.warned = r.warned]
    /\ UNCHANGED notNumVars

NextSerial == NextSerialCall

SpecSerial == InitSerial /\ [][NextSerial]_vars

\* a < b as 32-bit unsigned numbers
U32Less(a, b) == a.hi < b.hi \/ (a.hi = b.hi /\ a.lo < b.lo)

\* RFC 1982, section 3.2: s2 is greater than s1 when the numbers differ
\* and (i1 < i2 and i2 - i1 < 2^31) or (i1 > i2 and i1 - i2 > 2^31).
SerialGreater(s2, s1) ==
    \/ U32Less(s1, s2) /\ U32Sub(s2, s1).hi < Half \div 2
    \/ /\ U32Less(s2, s1)
       /\ LET d == U32Sub(s1, s2)
          IN d.hi > Half \div 2 \/ (d.hi = Half \div 2 /\ d.lo > 0)

\* RFC 1982 leaves serials 2^31 apart without an order.
SerialComparable(s1, s2) == U32Sub(s1, s2) # U32(Half \div 2, 0)

\* C21: zones_next_serial returns (old + 1) mod 2^32 under the increment
\* policy and the low 32 bits of the unix time under the unixtime policy;
\* a serial that is not greater than the old one by RFC 1982 is warned
\* about and returned all the same; the increment policy never warns, the
\* wrap from 0xFFFFFFFF to 0 included.
C21_NextSerialWraps ==
    (num.fn = "zones_next_serial" /\ num.done) =>
       /\ num.policy = "CONF_SERIAL_INCREMENT" =>
             /\ U32Sub(num.serial, num.old) = U32(0, 1)
             /\ num.old = U32(Half - 1, Half - 1) => num.serial = U32(0, 0)
             /\ ~num.warned
       /\ num.policy = "CONF_SERIAL_UNIXTIME" =>
             /\ num.serial.hi = num.now.hi
             /\ num.serial.lo = num.now.lo
       /\ (SerialComparable(num.old, num.serial)
           /\ ~SerialGreater(num.serial, num.old)) => num.warned

\* The increment of 0xFFFFFFFF gave 0 without a warning.
C21_Witness ==
    /\ num.fn = "zones_next_serial" /\ num.done
    /\ num.policy = "CONF_SERIAL_INCREMENT"
    /\ num.old = U32(Half - 1, Half - 1)
    /\ num.serial = U32(0, 0) /\ ~num.warned

\* ---------------------------------------------------------------------
\* SpecDnssec: scheduling of the DNSSEC resign timer
\* ---------------------------------------------------------------------
MaxCalls == 2       \* calls of the scheduling functions in one behaviour

\* time(NULL) at the calls, seconds since the epoch
UnixTimes == {1700000000}
Int32Max == (Half \div 2 - 1) * Half + (Half - 1)
\* Distances in seconds between a moment asked for and the clock: in the
\* past, now, soon, the last one and the first one whose milliseconds
\* leave int32_t, the last one and the first one whose milliseconds leave
\* uint32_t, and 60 days.
Offsets == {0 - 10, 0, 1, 3600, Int32Max \div 1000, Int32Max \div 1000 + 1,
            2 * (Int32Max \div 1000) + 1, 2 * (Int32Max \div 1000) + 2,
            5184000}

\* (uint32_t)(relative * 1000) when the product wraps
Mul1000U32(relative) ==
    LET lo == (relative % Half) * 1000
        hi == ((relative \div Half) * 1000 + (lo \div Half)) % Half
    IN U32(hi, lo % Half)

\* a 32-bit value divided by 1000: <<quotient, remainder>>
U32DivMod1000(a) ==
    LET r  == a.hi % 1000
        lo == r * Half + a.lo
    IN <<(a.hi \div 1000) * Half + (lo \div 1000), lo % 1000>>

\* evsched_schedule(s, ev, dt): the event is due dt milliseconds from now
evsched_schedule(timer, now, dt) ==
    [exists |-> TRUE, armed |-> TRUE,
     tv_sec |-> now + U32DivMod1000(dt)[1], dt |-> dt]

\* evsched_cancel(s, ev): the event is taken off the queue, ev->tv stays
evsched_cancel(timer) == [timer EXCEPT !.armed = FALSE]

\* zones_cancel_dnssec
zones_cancel_dnssec(timer) ==
    IF timer.exists THEN evsched_cancel(timer) ELSE timer

\* zones_schedule_dnssec.  relative * 1000 is a product of int32_t: past
\* INT32_MAX it is undefined, and 'ub' is what the build makes of it, the
\* wrapped product or a trap.
zones_schedule_dnssec(timer, now, unixtime, ub) ==
    IF ~timer.exists
    THEN [ret |-> "KNOT_EAGAIN", timer |-> timer, warned |-> FALSE]
    ELSE LET relative == IF unixtime <= now THEN 0 ELSE unixtime - now
         IN IF relative > Int32Max \div 1000 /\ ub = "trap"
            THEN [ret |-> "SIGABRT", timer |-> timer,
                  warned |-> unixtime <= now]
            ELSE [ret |-> "KNOT_EOK",
                  timer |-> evsched_schedule(timer, now,
                                             Mul1000U32(relative)),
                  warned |-> unixtime <= now]

\* replan_zone_sign_after_ddns that replans whenever the times differ
replan_zone_sign_always(timer, now, refresh_at, ub) ==
    IF timer.tv_sec = refresh_at
    THEN [ret |-> "KNOT_EOK", timer |-> timer, warned |-> FALSE,
          cancelled |-> FALSE]
    ELSE LET r == zones_schedule_dnssec(zones_cancel_dnssec(timer), now,
                                        refresh_at, ub)
         IN [ret |-> r.ret, timer |-> r.timer, warned |-> r.warned,
             cancelled |-> TRUE]

\* replan_zone_sign_after_ddns
replan_zone_sign_after_ddns(timer, now, refresh_at, ub) ==
    IF timer.tv_sec <= refresh_at
    THEN [ret |-> "KNOT_EOK", timer |-> timer, warned |-> FALSE,
          cancelled |-> FALSE]
    ELSE LET r == zones_schedule_dnssec(zones_cancel_dnssec(timer), now,
                                        refresh_at, ub)
         IN [ret |-> r.ret, timer |-> r.timer, warned |-> r.warned,
             cancelled |-> TRUE]

\* The timer at the start: not created, created and fired some time ago,
\* or due at one of the moments.
InitDnssec ==
    /\ \E now \in UnixTimes :
          \E timer \in {NullTimer}
                \cup {[exists |-> TRUE, armed |-> FALSE,
                       tv_sec |-> now - 100, dt |-> U32(0, 0)]}
                \cup {evsched_schedule(NullTimer, now, Mul1000U32(d)) :
                         d \in {3600, 2 * (Int32Max \div 1000) + 1}} :
             dnssec = [timer |-> timer, now |-> now, calls |-> 0,
                       call |-> NoCall32]
    /\ NotDnssecUnused

\* The moments a caller asks for: 0 when the signer set none, or a moment
\* around the clock.
Moments(now) == {0} \cup {now + d : d \in Offsets}

\* zones_schedule_dnssec(zone, unixtime) as zones_dnssec_ev and
\* zones_do_diff_and_sign call it
ScheduleDnssecCall ==
    /\ dnssec.calls < MaxCalls
    /\ dnssec.call.ret # "SIGABRT"
    /\ \E t \in Moments(dnssec.now), ub \in {"wrap", "trap"} :
          LET r == zones_schedule_dnssec(dnssec.timer, dnssec.now, t, ub)
          IN dnssec' =
                [dnssec EXCEPT
                   !.timer = r.timer, !.calls = @ + 1,
                   !.call = [fn |-> "zones_schedule_dnssec",
                             t |-> t, before |-> dnssec.timer,
                             ret |-> r.ret, warned |-> r.warned,
                             cancelled |-> FALSE]]
    /\ UNCHANGED notDnssecVars

\* replan_zone_sign_after_ddns(zone, refresh_at) as
\* zones_process_update_auth calls it, after its assert that the timer
\* exists
ReplanCall ==
    /\ dnssec.calls < MaxCalls
    /\ dnssec.call.ret # "SIGABRT"
    /\ dnssec.timer.exists
    /\ \E t \in Moments(dnssec.now), ub \in {"wrap", "trap"} :
          LET r == replan_zone_sign_after_ddns(dnssec.timer, dnssec.now,
                                               t, ub)
          IN dnssec' =
                [dnssec EXCEPT
                   !.timer = r.timer, !.calls = @ + 1,
                   !.call = [fn |-> "replan_zone_sign_after_ddns",
                             t |-> t, before |-> dnssec.timer,
                             ret |-> r.ret, warned |-> r.warned,
                             cancelled |-> r.cancelled]]
    /\ UNCHANGED notDnssecVars

NextDnssec ==
    \/ ScheduleDnssecCall
    \/ ReplanCall

SpecDnssec == InitDnssec /\ [][NextDnssec]_vars

\* C22: replan_zone_sign_after_ddns never moves the DNSSEC timer later.
\* When it returns OK for a timer that was due at 'before', the timer is
\* due at the smaller of 'before' and refresh_at (a moment in the past
\* being due now), and a timer that was due no later than refresh_at is
\* neither cancelled nor scheduled again.
C22_ReplanNeverLater ==
    (/\ dnssec.call.fn = "replan_zone_sign_after_ddns"
     /\ dnssec.call.ret = "KNOT_EOK"
     /\ dnssec.call.before.armed) =>
       LET before == dnssec.call.before.tv_sec
           refresh_at == dnssec.call.t
           earlier == IF before <= refresh_at THEN before ELSE refresh_at
       IN /\ dnssec.timer.armed
          /\ dnssec.timer.tv_sec =
                IF earlier < dnssec.now THEN dnssec.now ELSE earlier
          /\ dnssec.timer.tv_sec <= before
          /\ before <= refresh_at =>
                (~dnssec.call.cancelled /\ dnssec.timer = dnssec.call.before)

\* A timer due in more than 49 days was replanned to a moment more than
\* 24 days ahead, whose milliseconds do not fit int32_t, and is due then.
C22_Witness ==
    /\ dnssec.call.fn = "replan_zone_sign_after_ddns"
    /\ dnssec.call.ret = "KNOT_EOK"
    /\ dnssec.call.before.armed
    /\ dnssec.call.cancelled
    /\ dnssec.call.t = dnssec.now + Int32Max \div 1000 + 1
    /\ dnssec.timer.armed
    /\ dnssec.timer.tv_sec = dnssec.call.t

\* C23: zones_schedule_dnssec(zone, t) without a timer returns EAGAIN and
\* schedules nothing; with a timer it arms it after max(0, t - now)
\* seconds in milliseconds, exactly, and warns exactly when t <= now.
C23_ScheduleExact ==
    dnssec.call.fn = "zones_schedule_dnssec" =>
       LET relative == IF dnssec.call.t <= dnssec.now THEN 0
                       ELSE dnssec.call.t - dnssec.now
       IN IF ~dnssec.call.before.exists
          THEN /\ dnssec.call.ret = "KNOT_EAGAIN"
               /\ dnssec.timer = dnssec.call.before
          ELSE /\ dnssec.call.ret = "KNOT_EOK"
               /\ dnssec.timer.armed
               /\ U32DivMod1000(dnssec.timer.dt) = <<relative, 0>>
               /\ dnssec.call.warned <=> (dnssec.call.t <= dnssec.now)

\* ---------------------------------------------------------------------
\* SpecJitter: zones_jitter over the intervals of the SOA timers
\* ---------------------------------------------------------------------
\* SOA timer values in seconds whose milliseconds stay below 2^31: around
\* 2^32 / 100 ms (42949 s), a day, a week, and the largest one.
SoaSeconds == {1, 600, 3600, 42949, 42950, 86400, 604800, Int32Max \div 1000}
\* values of knot_random_uint32_t()
JitterRands == 0 .. (2 * ZONES_JITTER_PCT - 1)

InitJitter ==
    /\ num \in [fn : {"zones_jitter"}, soa : SoaSeconds, rnd : JitterRands,
                done : {FALSE}, interval : {0}, ret : {0}]
    /\ NotNumUnused

\* zones_jitter(zones_soa_timer(zone, rr_func)) on a zone with contents
JitterCall ==
    /\ num.fn = "zones_jitter"
    /\ ~num.done
    /\ LET interval == zones_soa_refresh([contents |-> 1, refresh |-> num.soa])
       IN num' = [num EXCEPT !.done = TRUE, !.interval = interval,
                             !.ret = zones_jitter(interval, num.rnd)]
    /\ UNCHANGED notNumVars

NextJitter == JitterCall

SpecJitter == InitJitter /\ [][NextJitter]_vars

\* interval * (100 - r) / 100 in the integers
JitterOf(interval, r) ==
    (interval \div 100) * (100 - r) + ((interval % 100) * (100 - r)) \div 100

\* C24: zones_jitter(interval) is interval * (100 - r) / 100 for some r in
\* [0, ZONES_JITTER_PCT): never above the interval and never below
\* interval * (100 - (ZONES_JITTER_PCT - 1)) / 100, for every interval
\* that is an SOA timer in milliseconds, a day or more included.
C24_JitterWithinBounds ==
    (num.fn = "zones_jitter" /\ num.done) =>
       /\ num.ret <= num.interval
       /\ num.ret >= JitterOf(num.interval, ZONES_JITTER_PCT - 1)
       /\ \E r \in 0 .. (ZONES_JITTER_PCT - 1) :
             num.ret = JitterOf(num.interval, r)

\* ---------------------------------------------------------------------
\* SpecKey: the comparators of the journal keys, in full width
\* ---------------------------------------------------------------------
\* A uint64_t journal key is held as its two 32-bit words, each as halves:
\* key = [TO | FROM].
Keys64 == [high : {U32(0, 0), U32(0, 3), U32(Half - 1, Half - 1)},
           low : Serials32]
       \cup [high : Serials32,
             low : {U32(0, 0), U32(0, 3), U32(Half - 1, Half - 1)}]

\* ixfrdb_key_from: (uint32_t)(k & 0x00000000ffffffff)
ixfrdb_key_from_uint32(k) == k.low

\* ixfrdb_key_to: (uint32_t)(k >> 32)
ixfrdb_key_to_uint32(k) == k.high

\* The conversion of a uint64_t difference of two 32-bit values to int:
\* its low 32 bits read as a two's complement number.
IntOfDifference(a, b) ==
    LET d == U32Sub(a, b)
    IN IF d.hi < Half \div 2 THEN d.hi * Half + d.lo
       ELSE (d.hi - Half) * Half + d.lo

\* ixfrdb_key_to_cmp
ixfrdb_key_to_cmp_int(k, to) == IntOfDifference(ixfrdb_key_to_uint32(k), to)

\* ixfrdb_key_from_cmp
ixfrdb_key_from_cmp_int(k, from) ==
    IntOfDifference(ixfrdb_key_from_uint32(k), from)

InitKey ==
    /\ num \in [fn : {"ixfrdb_key_from_cmp", "ixfrdb_key_to_cmp"},
                k : Keys64, s : Serials32, done : {FALSE}, ret : {0}]
    /\ NotNumUnused

KeyFromCmpCall ==
    /\ num.fn = "ixfrdb_key_from_cmp"
    /\ ~num.done
    /\ num' = [num EXCEPT !.done = TRUE,
                          !.ret = ixfrdb_key_from_cmp_int(num.k, num.s)]
    /\ UNCHANGED notNumVars

KeyToCmpCall ==
    /\ num.fn = "ixfrdb_key_to_cmp"
    /\ ~num.done
    /\ num' = [num EXCEPT !.done = TRUE,
                          !.ret = ixfrdb_key_to_cmp_int(num.k, num.s)]
    /\ UNCHANGED notNumVars

NextKey ==
    \/ KeyFromCmpCall
    \/ KeyToCmpCall

SpecKey == InitKey /\ [][NextKey]_vars

\* the 32 bits of the key that the comparator called looks at
ComparedPart ==
    IF num.fn = "ixfrdb_key_from_cmp" THEN num.k.low ELSE num.k.high

\* C25: ixfrdb_key_from_cmp(k, s) and ixfrdb_key_to_cmp(k, s) order by
\* number: the result is 0 exactly when the low (resp. high) 32 bits of k
\* equal s, negative exactly when they are smaller than s and positive
\* exactly when they are larger, for all keys and all 32-bit serials.
C25_KeyCmpIsNumericOrder ==
    (num.fn \in {"ixfrdb_key_from_cmp", "ixfrdb_key_to_cmp"} /\ num.done) =>
       /\ (num.ret = 0) <=> (ComparedPart = num.s)
       /\ (num.ret < 0) <=> U32Less(ComparedPart, num.s)
       /\ (num.ret > 0) <=> U32Less(num.s, ComparedPart)

\* ---------------------------------------------------------------------
\* SpecRetain: the retain count of the journal along the operations
\* ---------------------------------------------------------------------
MaxOps == 2         \* operations on the journal in one behaviour

JournalOps == {"load", "sync", "update", "store_apply", "diff_sign"}

\* journal_retain: one more holder, or an error and no change
journal_retain(refs, ok) ==
    IF ok THEN [ret |-> "KNOT_EOK", refs |-> refs + 1]
    ELSE [ret |-> "KNOT_ERROR", refs |-> refs]

\* journal_release: one holder less
journal_release(refs) == refs - 1

\* zones_store_changesets_begin that keeps the journal retained when the
\* transaction cannot be begun
zones_store_changesets_begin_leaky(j, r) ==
    IF r = "no_db" THEN [j EXCEPT !.transaction = FALSE]
    ELSE LET t == journal_retain(j.refs, r # "retain_fail") IN
         IF t.ret # "KNOT_EOK" THEN [j EXCEPT !.transaction = FALSE]
         ELSE IF r = "trans_fail"
         THEN [j EXCEPT !.refs = t.refs, !.transaction = FALSE]
         ELSE [j EXCEPT !.refs = t.refs, !.trans = TRUE,
                        !.transaction = TRUE, !.begun = @ + 1]

\* zones_store_changesets_begin: NULL without a journal, when the retain
\* fails, or when journal_trans_begin fails (the journal is released)
zones_store_changesets_begin(j, r) ==
    IF r = "no_db" THEN [j EXCEPT !.transaction = FALSE]
    ELSE LET t == journal_retain(j.refs, r # "retain_fail") IN
         IF t.ret # "KNOT_EOK" THEN [j EXCEPT !.transaction = FALSE]
         ELSE IF r = "trans_fail"
         THEN [j EXCEPT !.refs = journal_release(t.refs),
                        !.transaction = FALSE]
         ELSE [j EXCEPT !.refs = t.refs, !.trans = TRUE,
                        !.transaction = TRUE, !.begun = @ + 1]

\* zones_store_changesets_commit and zones_store_changesets_rollback:
\* KNOT_EINVAL for NULL, else the transaction ends and the journal is
\* released whatever journal_trans_commit / _rollback returns
zones_store_changesets_end(j) ==
    IF ~j.transaction THEN j
    ELSE [j EXCEPT !.trans = FALSE, !.refs = journal_release(@),
                   !.transaction = FALSE, !.ended = @ + 1]

InitRetain ==
    /\ jr \in [refs : {0, 1}, trans : {FALSE}, op : {"none"}, pc : {"idle"},
               entry : {0}, transaction : {FALSE}, tries : {0},
               begun : {0}, ended : {0}, ops : {0}, ret : {"none"}]
    /\ NotRetainUnused

\* where an operation first meets the journal
FirstStep(o) ==
    CASE o = "load" -> "load"
      [] o = "sync" -> "sync"
      [] o = "store_apply" -> "bas"
      [] OTHER -> "merge"

\* An operation is called: it finds the journal with 'entry' holders.
StartOp ==
    /\ jr.pc \in {"idle", "done"}
    /\ jr.ops < MaxOps
    /\ \E o \in JournalOps :
          jr' = [jr EXCEPT !.op = o, !.entry = jr.refs, !.ops = @ + 1,
                           !.transaction = FALSE, !.tries = 0, !.begun = 0,
                           !.ended = 0, !.ret = "none",
                           !.pc = FirstStep(o)]
    /\ UNCHANGED notRetainVars

Returns(j, ret) == [j EXCEPT !.pc = "done", !.ret = ret]

\* zones_load_changesets up to its journal_retain
LoadRetain ==
    /\ jr.pc = "load"
    /\ \E used \in BOOLEAN, ok \in BOOLEAN :
          IF ~used THEN jr' = Returns(jr, "KNOT_ERANGE")
          ELSE LET t == journal_retain(jr.refs, ok) IN
               IF t.ret # "KNOT_EOK" THEN jr' = Returns(jr, t.ret)
               ELSE jr' = [jr EXCEPT !.refs = t.refs, !.pc = "load_scan"]
    /\ UNCHANGED notRetainVars

\* zones_load_changesets from journal_fetch on: each failure releases and
\* returns; the end of the scan releases before the changesets are
\* unpacked.
LoadScan ==
    /\ jr.pc = "load_scan"
    /\ \E out \in {"fetch", "create", "malloc", "read", "end"},
          unpack \in {"KNOT_EOK", "KNOT_ERROR", "KNOT_ERANGE"} :
          jr' = Returns([jr EXCEPT !.refs = journal_release(@)],
                        CASE out = "fetch" -> "KNOT_ENOENT"
                          [] out = "malloc" -> "KNOT_ENOMEM"
                          [] out = "end" -> unpack
                          [] OTHER -> "KNOT_ERROR")
    /\ UNCHANGED notRetainVars

\* zones_zonefile_sync_from_ev up to its journal_retain, called by
\* zones_flush_ev or for a full journal by
\* zones_store_changesets_begin_and_store, which returns on its failure
SyncRetain ==
    /\ jr.pc = "sync"
    /\ \E used \in BOOLEAN, ok \in BOOLEAN :
          IF ~used
          THEN jr' = IF jr.op = "sync" THEN Returns(jr, "KNOT_EOK")
                     ELSE [jr EXCEPT !.pc = "begin"]
          ELSE LET t == journal_retain(jr.refs, ok) IN
               IF t.ret # "KNOT_EOK" THEN jr' = Returns(jr, t.ret)
               ELSE jr' = [jr EXCEPT !.refs = t.refs, !.pc = "sync_run"]
    /\ UNCHANGED notRetainVars

\* zones_zonefile_sync and the journal_release after it
SyncRun ==
    /\ jr.pc = "sync_run"
    /\ \E ret \in {"KNOT_EOK", "KNOT_ERANGE", "KNOT_ERROR"} :
          LET j == [jr EXCEPT !.refs = journal_release(@)] IN
          jr' = IF jr.op = "sync" \/ ret # "KNOT_EOK" THEN Returns(j, ret)
                ELSE [j EXCEPT !.pc = "begin"]
    /\ UNCHANGED notRetainVars

\* zones_merge_and_store_changesets: nothing to store, one of the two
\* changesets to store, or the merged one; a failed merge returns.
MergeAndStore ==
    /\ jr.pc = "merge"
    /\ \E shape \in {"both_empty", "one", "merged", "merge_fail"} :
          jr' = CASE shape = "both_empty" -> [jr EXCEPT !.pc = "apply"]
                  [] shape = "merge_fail" -> Returns(jr, "KNOT_ERROR")
                  [] OTHER -> [jr EXCEPT !.pc = "bas"]
    /\ UNCHANGED notRetainVars

\* zones_store_changesets_begin_and_store: KNOT_EINVAL for no changes
BeginAndStore ==
    /\ jr.pc = "bas"
    /\ \E empty \in IF jr.op = "store_apply" THEN BOOLEAN ELSE {FALSE} :
          jr' = IF empty THEN Returns(jr, "KNOT_EINVAL")
                ELSE [jr EXCEPT !.pc = "begin"]
    /\ UNCHANGED notRetainVars

\* zones_store_chgsets_try_store: the begin; without a transaction it
\* returns KNOT_ERROR and so do its callers
TryBegin ==
    /\ jr.pc = "begin"
    /\ \E r \in {"no_db", "retain_fail", "trans_fail", "ok"} :
          LET j == zones_store_changesets_begin(
                      [jr EXCEPT !.tries = @ + 1], r) IN
          jr' = IF j.transaction THEN [j EXCEPT !.pc = "store"]
                ELSE Returns(j, "KNOT_ERROR")
    /\ UNCHANGED notRetainVars

\* zones_store_chgsets_try_store: zones_store_changesets, and the rollback
\* when it fails; the first KNOT_EBUSY leads
\* zones_store_changesets_begin_and_store to the flush and a second try
TryStore ==
    /\ jr.pc = "store"
    /\ \E ret \in {"KNOT_EOK", "KNOT_EBUSY", "KNOT_ERROR"} :
          IF ret = "KNOT_EOK" THEN jr' = [jr EXCEPT !.pc = "apply"]
          ELSE LET j == zones_store_changesets_end(jr) IN
               jr' = IF ret = "KNOT_EBUSY" /\ jr.tries = 1
                     THEN [j EXCEPT !.pc = "sync"]
                     ELSE Returns(j, ret)
    /\ UNCHANGED notRetainVars

\* What follows the storing in zones_process_update_auth,
\* zones_store_and_apply_chgsets and zones_do_diff_and_sign: the changes
\* are applied (signed, replanned, adjusted); a failure rolls the
\* transaction back and returns.
ApplyStored ==
    /\ jr.pc = "apply"
    /\ \E ret \in {"KNOT_EOK", "KNOT_ERROR"} :
          jr' = IF ret = "KNOT_EOK" THEN [jr EXCEPT !.pc = "commit"]
                ELSE Returns(zones_store_changesets_end(jr), ret)
    /\ UNCHANGED notRetainVars

\* The commit of the transaction, if there is one; the operation returns
\* after it (the switch of the contents does not use the journal).
CommitStored ==
    /\ jr.pc = "commit"
    /\ \E ret \in {"KNOT_EOK", "KNOT_ERROR"} :
          jr' = IF jr.transaction
                THEN Returns(zones_store_changesets_end(jr), ret)
                ELSE Returns(jr, "KNOT_EOK")
    /\ UNCHANGED notRetainVars

NextRetain ==
    \/ StartOp
    \/ LoadRetain
    \/ LoadScan
    \/ SyncRetain
    \/ SyncRun
    \/ MergeAndStore
    \/ BeginAndStore
    \/ TryBegin
    \/ TryStore
    \/ ApplyStored
    \/ CommitStored

SpecRetain == InitRetain /\ [][NextRetain]_vars

\* C26: every journal_retain of zones_load_changesets,
\* zones_zonefile_sync_from_ev and zones_store_changesets_begin is matched
\* by one journal_release on every exit path, and every transaction begun
\* is ended by one commit or rollback before the operation returns: when
\* an operation has returned the retain count is what it was at its
\* entry, no transaction is open and as many were ended as were begun;
\* the count never falls below its entry value.
C26_RetainBalanced ==
    /\ jr.pc = "done" =>
          (jr.refs = jr.entry /\ ~jr.trans /\ jr.begun = jr.ended)
    /\ jr.op # "none" => (jr.refs >= jr.entry /\ jr.ended <= jr.begun)
    /\ jr.op # "none" => (jr.trans <=> jr.begun = jr.ended + 1)

\* A DNS UPDATE whose first store found the journal full: the transaction
\* was rolled back, the journal flushed, a second transaction committed.
C26_Witness ==
    /\ jr.op = "update" /\ jr.pc = "done" /\ jr.ret = "KNOT_EOK"
    /\ jr.begun = 2 /\ jr.ended = 2 /\ jr.tries = 2
    /\ jr.refs = jr.entry /\ jr.entry = 1

\* ---------------------------------------------------------------------
\* SpecCname: check_cname_cycles_in_zone (src/dnslib/zone-dump.c)
\* ---------------------------------------------------------------------
MAX_CNAME_CYCLE_DEPTH == 15
MaxChain == 17      \* longest CNAME chain that ends
MaxCycle == 3       \* longest CNAME cycle

\* Domain names are numbers; no name (NULL) is -1.
NullName == 0 - 1

\* A zone whose node 0 starts a chain of CNAMEs: the nodes 0 .. len - 1
\* hold a CNAME to the next name, and the name len has no node, is a node
\* without a CNAME, or is a node of the NSEC3 tree.
ChainZone(len, end) ==
    [cname |-> [n \in 0 .. (len - 1) |-> n + 1],
     plain |-> IF end = "nocname" THEN {len} ELSE {},
     nsec3 |-> IF end = "nsec3" THEN {len} ELSE {}]

\* A zone whose nodes 0 .. len - 1 hold CNAMEs that lead back to node j.
CycleZone(len, j) ==
    [cname |-> [n \in 0 .. (len - 1) |-> IF n = len - 1 THEN j ELSE n + 1],
     plain |-> {}, nsec3 |-> {}]

\* dnslib_zone_get_node and dnslib_zone_get_nsec3_node: is there a node
dnslib_zone_get_node(z, dname) ==
    dname \in (DOMAIN z.cname) \cup z.plain
dnslib_zone_get_nsec3_node(z, dname) == dname \in z.nsec3

\* dnslib_rdata_cname_name of the CNAME RRSet of the node, NULL without one
CnameOfNode(z, dname) ==
    IF dname \in DOMAIN z.cname THEN z.cname[dname] ELSE NullName

InitCname ==
    /\ \E shape \in [len : 1 .. MaxChain, end : {"nonode", "nocname", "nsec3"},
                     j : {0}]
                 \cup {sh \in [len : 1 .. MaxCycle, end : {"cycle"},
                               j : 0 .. (MaxCycle - 1)] : sh.j < sh.len} :
          LET z == IF shape.end = "cycle" THEN CycleZone(shape.len, shape.j)
                   ELSE ChainZone(shape.len, shape.end)
          IN zdump = [fn |-> "check_cname_cycles_in_zone", zone |-> z,
                      len |-> shape.len, end |-> shape.end, pc |-> "loop",
                      i |-> 0, next_dname |-> CnameOfNode(z, 0),
                      ret |-> 0]
    /\ NotDumpUnused

\* while (i < MAX_CNAME_CYCLE_DEPTH && next_dname != NULL)
CnameLoopsOn(d) ==
    d.i < MAX_CNAME_CYCLE_DEPTH /\ d.next_dname # NullName

\* One turn of the loop: the name is looked up in the two trees; the
\* chain goes on with the CNAME of the node found, if it has one.
CnameLookup ==
    /\ zdump.fn = "check_cname_cycles_in_zone"
    /\ zdump.pc = "loop"
    /\ CnameLoopsOn(zdump)
    /\ LET found == \/ dnslib_zone_get_node(zdump.zone, zdump.next_dname)
                    \/ dnslib_zone_get_nsec3_node(zdump.zone,
                                                  zdump.next_dname)
       IN zdump' = [zdump EXCEPT
                      !.next_dname = IF found
                                     THEN CnameOfNode(zdump.zone, @)
                                     ELSE NullName,
                      !.i = @ + 1]
    /\ UNCHANGED notDumpVars

\* After the loop: -1 for a cycle, 0 otherwise.
CnameReturn ==
    /\ zdump.fn = "check_cname_cycles_in_zone"
    /\ zdump.pc = "loop"
    /\ ~CnameLoopsOn(zdump)
    /\ zdump' = [zdump EXCEPT
                   !.pc = "done",
                   !.ret = IF zdump.i >= MAX_CNAME_CYCLE_DEPTH THEN 0 - 1
                           ELSE 0]
    /\ UNCHANGED notDumpVars

NextCname ==
    \/ CnameLookup
    \/ CnameReturn

SpecCname == InitCname /\ [][NextCname]_vars

\* C27: check_cname_cycles_in_zone ends after at most 15 lookups and
\* reports a cycle exactly when the chain of CNAMEs from the node does not
\* end (at a name without a node or a node without a CNAME) within 15
\* lookups.
C27_CycleIffNotEndedIn15 ==
    /\ zdump.fn = "check_cname_cycles_in_zone" =>
          zdump.i <= MAX_CNAME_CYCLE_DEPTH
    /\ (zdump.fn = "check_cname_cycles_in_zone" /\ zdump.pc = "done") =>
          ((zdump.ret = 0 - 1) <=>
             (zdump.end = "cycle" \/ zdump.len > MAX_CNAME_CYCLE_DEPTH))

\* ---------------------------------------------------------------------
\* SpecCheck: the semantic checks of one node during the dump,
\* dnslib_zone_save_enclosers_in_tree (src/dnslib/zone-dump.c)
\* ---------------------------------------------------------------------
NodeTypes == {"CNAME", "A", "RRSIG", "NSEC"}
\* the labels of the owner of the node and the DNSKEY records of the apex
OwnerLabels == {2}
ApexDnskeys == {[alg |-> 5, key_tag |-> 1], [alg |-> 8, key_tag |-> 2]}

\* No RRSIG is attached to any RRSet of the node.
NoSig == [rrset |-> "none", type_covered |-> "none", labels |-> 0,
          signer |-> "none", alg |-> 0, key_tag |-> 0]
\* An RRSIG attached to the RRSet of type 'rrset' of the node.
Sigs(types) ==
    [rrset : types \ {"RRSIG"}, type_covered : {"CNAME", "A"},
     labels : {2, 3}, signer : {"apex", "other"}, alg : {5, 8},
     key_tag : {1}]

\* A node: the types of its RRSets, the RDATA items of its CNAME RRSet,
\* whether it is authoritative, and the attached RRSIG.
CheckedNodes ==
    UNION {[types : {types}, cnames : IF "CNAME" \in types THEN {1, 2}
                                      ELSE {0},
            non_auth : BOOLEAN, sig : {NoSig} \cup Sigs(types)] :
           types \in SUBSET NodeTypes}

dnslib_node_rrset(node, type) == type \in node.types
dnslib_node_rrset_count(node) == Cardinality(node.types)

InitCheck ==
    /\ zdump \in [fn : {"dnslib_zone_save_enclosers_in_tree"},
                  node : CheckedNodes, do_checks : {0, 1, 2},
                  done : {FALSE}, errors : {{}}, fault : {FALSE}]
    /\ NotDumpUnused

\* The CNAME checks under do_checks; cycle is what
\* check_cname_cycles_in_zone found.  The number of RRSets is tested
\* whether or not the node holds a CNAME.
CnameErrors(node, do_checks, cycle) ==
    (IF dnslib_node_rrset(node, "CNAME") /\ cycle THEN {"cycle"} ELSE {})
    \cup
    (IF dnslib_node_rrset_count(node) # 1 /\ do_checks = 1
     THEN {"more_rrsets"}
     ELSE IF dnslib_node_rrset_count(node) # 1
             /\ ~(dnslib_node_rrset(node, "RRSIG")
                  \/ dnslib_node_rrset(node, "NSEC"))
     THEN {"other_records"}
     ELSE {})

\* The loop over the RRSets of an authoritative node under do_checks = 2:
\* its body reads rrsets[i] and does nothing else; check_rrsig_in_rrset
\* is not called.
RrsigErrors(node, dnskeys) == {}

\* dnslib_zone_save_enclosers_in_tree(node, data).  The test for a second
\* CNAME reads dnslib_rrset_rdata(cname_rrset)->next also when the node has
\* no CNAME RRSet: a read through a NULL pointer, which faults or yields
\* either answer.
SaveEnclosersInTree ==
    /\ zdump.fn = "dnslib_zone_save_enclosers_in_tree"
    /\ ~zdump.done
    /\ LET node == zdump.node
           has_cname == dnslib_node_rrset(node, "CNAME") IN
       IF zdump.do_checks = 0
       THEN zdump' = [zdump EXCEPT !.done = TRUE]
       ELSE \E cycle \in IF has_cname THEN BOOLEAN ELSE {FALSE},
               null_read \in IF has_cname THEN {"none"}
                             ELSE {"fault", "more", "same"} :
               LET e == CnameErrors(node, zdump.do_checks, cycle)
                   more == IF has_cname THEN node.cnames > 1
                           ELSE null_read = "more"
                   faulted == null_read = "fault"
               IN zdump' =
                     [zdump EXCEPT
                        !.done = TRUE,
                        !.fault = faulted,
                        !.errors =
                           e \cup (IF more THEN {"more_cnames"} ELSE {})
                             \cup (IF zdump.do_checks = 2 /\ ~faulted
                                      /\ ~node.non_auth
                                   THEN RrsigErrors(node, ApexDnskeys)
                                   ELSE {})]
    /\ UNCHANGED notDumpVars

NextCheck == SaveEnclosersInTree

SpecCheck == InitCheck /\ [][NextCheck]_vars

\* the attached RRSIG agrees with its RRSet, the node and the apex keys
SigValid(node) ==
    /\ node.sig.type_covered = node.sig.rrset
    /\ node.sig.labels \in OwnerLabels
    /\ node.sig.signer = "apex"
    /\ \E k \in ApexDnskeys :
          k.alg = node.sig.alg /\ k.key_tag = node.sig.key_tag

\* C28: under do_checks = 2 the dump reports a violation for every RRSet
\* of an authoritative node whose attached RRSIG does not have the type
\* covered of the RRSet, the label count of the owner, the apex as signer
\* and the algorithm and key tag of one apex DNSKEY record.
C28_BadRrsigReported ==
    (/\ zdump.fn = "dnslib_zone_save_enclosers_in_tree" /\ zdump.done
     /\ zdump.do_checks = 2 /\ ~zdump.node.non_auth
     /\ zdump.node.sig # NoSig /\ ~SigValid(zdump.node)) =>
       "rrsig" \in zdump.errors

\* C29: under do_checks >= 1 the error about other records beside a CNAME
\* is reported exactly for a node with a CNAME RRSet and an RRSet of a
\* type other than RRSIG and NSEC, the error about more than one CNAME
\* exactly for a CNAME RRSet of more than one RDATA item, and a node
\* without a CNAME RRSet gets no such error and no fault.
C29_CnameErrorsExact ==
    (/\ zdump.fn = "dnslib_zone_save_enclosers_in_tree" /\ zdump.done
     /\ zdump.do_checks >= 1) =>
       LET types == zdump.node.types IN
       /\ (zdump.errors \cap {"more_rrsets", "other_records"} # {}) <=>
             ("CNAME" \in types /\ types \ {"CNAME", "RRSIG", "NSEC"} # {})
       /\ ("more_cnames" \in zdump.errors) <=>
             ("CNAME" \in types /\ zdump.node.cnames > 1)
       /\ "CNAME" \notin types => (zdump.errors = {} /\ ~zdump.fault)

\* ---------------------------------------------------------------------
\* SpecDump: the node counters of dnslib_zdump_binary over several dumps
\* ---------------------------------------------------------------------
MaxNodes == 2       \* nodes in a tree of a dumped zone
MaxDumps == 2       \* dumps in one process

\* A tree is the sequence of its nodes in order; of a node the dump
\* counts only whether it is authoritative.
Trees(min) ==
    UNION {[1 .. n -> [non_auth : BOOLEAN]] : n \in min .. MaxNodes}
\* the normal tree holds the apex at least
DumpedZones == [normal : Trees(1), nsec3 : Trees(0)]

\* dnslib_node_dump_binary over a tree in order: node_count++ for every
\* node, zone->node_count++ for every authoritative one
RECURSIVE TreeDump(_, _)
TreeDump(tree, c) ==
    IF tree = <<>> THEN c
    ELSE TreeDump(Tail(tree),
                  [node_count |-> c.node_count + 1,
                   zone_count |-> IF Head(tree).non_auth THEN c.zone_count
                                  ELSE c.zone_count + 1])

\* No dump was made.
NoHeader == <<0 - 1, 0 - 1, 0 - 1>>

InitDump ==
    /\ zdump = [fn |-> "dnslib_zdump_binary", node_count |-> 0, dumps |-> 0,
                zone |-> [normal |-> <<>>, nsec3 |-> <<>>],
                header |-> NoHeader, ret |-> 0]
    /\ NotDumpUnused

\* dnslib_zdump_binary(zone, filename, do_checks, sfilename): -1 when the
\* file cannot be opened; else the three counters are written as they
\* stand, the normal tree is dumped, node_count is saved and set to 0, the
\* NSEC3 tree is dumped, and the counters are written again over the first
\* ones.  node_count is static: it keeps its value between the calls.
ZdumpBinary ==
    /\ zdump.fn = "dnslib_zdump_binary"
    /\ zdump.dumps < MaxDumps
    /\ \E z \in DumpedZones, opened \in BOOLEAN :
          IF ~opened
          THEN zdump' = [zdump EXCEPT !.dumps = @ + 1, !.zone = z,
                                      !.header = NoHeader, !.ret = 0 - 1]
          ELSE LET c0 == [node_count |-> zdump.node_count, zone_count |-> 0]
                   c1 == TreeDump(z.normal, c0)
                   tmp_count == c1.node_count
                   c2 == TreeDump(z.nsec3,
                                  [c1 EXCEPT !.node_count = 0])
               IN zdump' = [zdump EXCEPT
                              !.dumps = @ + 1, !.zone = z, !.ret = 0,
                              !.node_count = c2.node_count,
                              !.header = <<tmp_count, c2.node_count,
                                           c2.zone_count>>]
    /\ UNCHANGED notDumpVars

NextDump == ZdumpBinary

SpecDump == InitDump /\ [][NextDump]_vars

\* the authoritative nodes of a tree
AuthNodes(tree) == Cardinality({i \in DOMAIN tree : ~tree[i].non_auth})

\* C30: whatever was dumped before, the three counters in the header of a
\* dump are the number of nodes of the normal tree, the number of nodes of
\* the NSEC3 tree and the number of authoritative nodes among them.
C30_HeaderCountsThisDump ==
    (zdump.fn = "dnslib_zdump_binary" /\ zdump.dumps > 0 /\ zdump.ret = 0) =>
       zdump.header = <<Len(zdump.zone.normal), Len(zdump.zone.nsec3),
                        AuthNodes(zdump.zone.normal)
                           + AuthNodes(zdump.zone.nsec3)>>

(***************************************************************************)
(* SpecNotify: zones_schedule_notify over the notify_out list of a zone.   *)
(* xfr_task_create, xfr_enqueue and xfr_task_free are not part of zones.c: *)
(* a created task holds one reference to the zone, xfr_task_free gives it  *)
(* back, and a task that xfr_enqueue refused stays with the caller.        *)
(***************************************************************************)
MaxPeers == 3
Remotes == {1, 2}
NotifyRetries == {0, 5}
NotifyLists == UNION {[1 .. n -> Remotes] : n \in 0 .. MaxPeers}
\* what the two calls made for one peer can do
TaskOutcomes == {"KNOT_EOK", "NULL", "KNOT_ERROR"}

\* xfr_task_create(zone, type, flags): NULL when out of memory
xfr_task_create(type, flags, nomem) ==
    IF nomem THEN NoNum
    ELSE [fn |-> "task", type |-> type, flags |-> flags, to |-> 0,
          data |-> 0]

\* the body of WALK_LIST that breaks off at the first peer that fails
zones_schedule_notify_peer_break(n, outcome) ==
    LET r == n.notify_out[n.i]
        rq == xfr_task_create("XFR_TYPE_NOTIFY", "XFR_FLAG_UDP",
                              outcome = "NULL")
        sent == [rq EXCEPT !.to = r, !.data = n.notify_retries]
    IN IF rq = NoNum
       THEN [n EXCEPT !.i = Len(n.notify_out) + 1,
                      !.attempts = Append(@, [peer |-> r, rq |-> FALSE])]
       ELSE IF outcome # "KNOT_EOK"
       THEN [n EXCEPT !.i = Len(n.notify_out) + 1, !.refs = @ + 1,
                      !.attempts = Append(@, [peer |-> r, rq |-> TRUE]),
                      !.held = @ \cup {n.i}]
       ELSE [n EXCEPT !.i = @ + 1, !.refs = @ + 1,
                      !.attempts = Append(@, [peer |-> r, rq |-> TRUE]),
                      !.queue = Append(@, sent)]

\* zones_schedule_notify, the body of WALK_LIST for the entry n.i:
\* 'continue' after a failed xfr_task_create and after a failed xfr_enqueue
zones_schedule_notify_peer(n, outcome) ==
    LET r == n.notify_out[n.i]
        rq == xfr_task_create("XFR_TYPE_NOTIFY", "XFR_FLAG_UDP",
                              outcome = "NULL")
        sent == [rq EXCEPT !.to = r, !.data = n.notify_retries]
    IN IF rq = NoNum
       THEN [n EXCEPT !.i = @ + 1,
                      !.attempts = Append(@, [peer |-> r, rq |-> FALSE])]
       ELSE IF outcome # "KNOT_EOK"
       THEN [n EXCEPT !.i = @ + 1, !.refs = @ + 1,
                      !.attempts = Append(@, [peer |-> r, rq |-> TRUE]),
                      !.held = @ \cup {n.i}]
       ELSE [n EXCEPT !.i = @ + 1, !.refs = @ + 1,
                      !.attempts = Append(@, [peer |-> r, rq |-> TRUE]),
                      !.queue = Append(@, sent)]

InitNotify ==
    /\ num \in [fn : {"zones_schedule_notify"}, contents : BOOLEAN,
                notify_out : NotifyLists, notify_retries : NotifyRetries,
                i : {0}, attempts : {<<>>}, queue : {<<>>}, held : {{}},
                refs : {0}, ret : {"none"}, pc : {"call"}]
    /\ NotNumUnused

\* zones_schedule_notify up to the list walk: a stub zone returns at once
NotifyBegin ==
    /\ num.fn = "zones_schedule_notify"
    /\ num.pc = "call"
    /\ num' = IF ~num.contents
              THEN [num EXCEPT !.pc = "done", !.ret = "KNOT_EOK"]
              ELSE [num EXCEPT !.pc = "walk", !.i = 1]
    /\ UNCHANGED notNumVars

NotifyPeer ==
    /\ num.fn = "zones_schedule_notify"
    /\ num.pc = "walk"
    /\ num.i <= Len(num.notify_out)
    /\ \E outcome \in TaskOutcomes :
          num' = zones_schedule_notify_peer(num, outcome)
    /\ UNCHANGED notNumVars

NotifyReturn ==
    /\ num.fn = "zones_schedule_notify"
    /\ num.pc = "walk"
    /\ num.i > Len(num.notify_out)
    /\ num' = [num EXCEPT !.pc = "done", !.ret = "KNOT_EOK"]
    /\ UNCHANGED notNumVars

NextNotify ==
    \/ NotifyBegin
    \/ NotifyPeer
    \/ NotifyReturn

SpecNotify == InitNotify /\ [][NextNotify]_vars

NotifyReturned == num.fn = "zones_schedule_notify" /\ num.pc = "done"

\* the peers of the tasks in the queue, in order
QueuedPeers == [k \in 1 .. Len(num.queue) |-> num.queue[k].to]

\* the peers whose task was created and accepted by xfr_enqueue, in order
RECURSIVE AcceptedPeers(_)
AcceptedPeers(k) ==
    IF k = 0 THEN <<>>
    ELSE IF num.attempts[k].rq /\ k \notin num.held
         THEN Append(AcceptedPeers(k - 1), num.attempts[k].peer)
         ELSE AcceptedPeers(k - 1)

\* C31: when zones_schedule_notify returns it returns OK; on a zone with
\* contents it has made one attempt per entry of notify_out, in order,
\* whatever happened to the entries before, every task that was accepted is
\* in the queue as a NOTIFY carrying notify_retries, and a zone without
\* contents has made no attempt and enqueued nothing.
C31_NotifyEveryPeer ==
    NotifyReturned =>
       /\ num.ret = "KNOT_EOK"
       /\ num.contents =>
             /\ Len(num.attempts) = Len(num.notify_out)
             /\ \A k \in 1 .. Len(num.attempts) :
                   num.attempts[k].peer = num.notify_out[k]
             /\ QueuedPeers = AcceptedPeers(Len(num.attempts))
             /\ \A k \in 1 .. Len(num.queue) :
                   /\ num.queue[k].type = "XFR_TYPE_NOTIFY"
                   /\ num.queue[k].data = num.notify_retries
       /\ ~num.contents => num.attempts = <<>> /\ num.queue = <<>>

\* a call where the first peer got no task, the second was refused by the
\* queue and the third was enqueued
C31_Witness ==
    /\ NotifyReturned
    /\ num.contents
    /\ Len(num.notify_out) = 3
    /\ ~num.attempts[1].rq
    /\ 2 \in num.held
    /\ Len(num.queue) = 1
    /\ num.queue[1].to = num.notify_out[3]
    /\ num.queue[1].data = 5

\* C39: every task that zones_schedule_notify created is, when the call
\* returns, either in the transfer queue or freed: the caller holds no
\* task any more, and the zone is referenced once per queued task only.
C39_TaskEnqueuedOrFreed ==
    NotifyReturned =>
       /\ num.held = {}
       /\ num.refs = Len(num.queue)

\* ---------------------------------------------------------------------
\* SpecXfr again: a zone that is XFR_PENDING and its transfer
\* ---------------------------------------------------------------------
\* A transfer of the zone is in the queue, or a worker has taken it off
\* the queue and is on its way to reset the state in
\* zones_schedule_refresh(zone, REFRESH_DEFAULT).
TransferOutstanding ==
    \/ \E k \in 1 .. Len(xfr_queue) :
          xfr_queue[k].type \in {"XFR_TYPE_AIN", "XFR_TYPE_IIN"}
    \/ \E w \in Workers :
          /\ thr[w].call = "schedule_refresh"
          /\ thr[w].time = REFRESH_DEFAULT
          /\ thr[w].pc # "done"

\* C36: whenever xfr_in.state is XFR_PENDING and no thread holds the zone
\* mutex, a transfer of the zone is outstanding: no path, a failed
\* xfr_task_create included, leaves the zone pending without a transfer
\* that will reset the state.
C36_PendingHasTransfer ==
    (xfr_in.state = "XFR_PENDING" /\ lock = 0) => TransferOutstanding

\* ---------------------------------------------------------------------
\* SpecEv again: a zone without a master
\* ---------------------------------------------------------------------
\* a call of zones_schedule_refresh by worker w has returned
ScheduleRefreshReturned(w) ==
    /\ thr[w].pc = "done"
    /\ \/ thr[w].call = "schedule_refresh"
       \/ thr[w].call = "response" /\ thr[w].path = "uptodate"

C34_RetryWhenInSync ==
    (op.pc = "post" /\ op.first = "KNOT_EBUSY") =>
       IF op.flush_ret \in {"KNOT_EOK", "KNOT_ERANGE"}
       THEN op.attempts = 2
       ELSE op.attempts = 1

(***************************************************************************)
(* SpecFlush: one firing of the flush timer, zones_flush_ev, on a zone     *)
(* with any contents, journal and zonefile serial, discarded or not.       *)
(***************************************************************************)
MaxFlushSerial == 2
MaxFlushNodes == 2
FlushNodes == [flags : {{"VALID"}, {"VALID", "DIRTY"}}]
FlushJournals == UNION {[1 .. n -> FlushNodes] : n \in 0 .. MaxFlushNodes}
ZoneFlags == {{}, {"ZONE_DISCARDED"}}

InitFlush ==
    /\ num \in [fn : {"zones_flush_ev"}, flags : ZoneFlags,
                contents : 0 .. MaxFlushSerial, journal : FlushJournals,
                zonefile_serial : 1 .. MaxFlushSerial,
                zonefile_mtime : {1}, dbsync_timeout : {0, 1},
                done : {FALSE}, ret : {"none"}, called : {FALSE},
                wrote : {FALSE}, dump : {"none"},
                journal_after : {<<>>}, zonefile_serial_after : {0},
                zonefile_mtime_after : {0}, ixfr_dbsync : {Unarmed}]
    /\ NotNumUnused

\* zones_flush_ev: zones_zonefile_sync_from_ev, then the event is scheduled
\* again when dbsync_timeout is positive.  The event that fired is not
\* armed when the handler starts.
FlushEvCall ==
    /\ num.fn = "zones_flush_ev"
    /\ ~num.done
    /\ \E retained \in BOOLEAN :
       \E dump \in IF retained THEN DumpOutcomes ELSE {"ok"} :
       \E mt \in IF retained /\ dump = "ok" THEN Mtimes ELSE {1} :
          LET r == zones_zonefile_sync_from_ev(num.contents, num.journal,
                       num.zonefile_serial, num.zonefile_mtime, retained,
                       dump, mt)
              next_timeout == num.dbsync_timeout * 1000
          IN num' = [num EXCEPT
                       !.done = TRUE, !.ret = r.ret, !.called = r.called,
                       !.wrote = r.wrote, !.dump = dump,
                       !.journal_after = r.nodes,
                       !.zonefile_serial_after = r.zfs,
                       !.zonefile_mtime_after = r.zmt,
                       !.ixfr_dbsync = IF next_timeout > 0
                                       THEN Armed(next_timeout)
                                       ELSE Unarmed]
    /\ UNCHANGED notNumVars

NextFlush == FlushEvCall

SpecFlush == InitFlush /\ [][NextFlush]_vars

FlushReturned == num.fn = "zones_flush_ev" /\ num.done

HasDirty(nodes) == \E i \in 1 .. Len(nodes) : "DIRTY" \in nodes[i].flags

\* zonefile_serial and the journal are as they were before the handler
FlushChangedNothing ==
    /\ num.zonefile_serial_after = num.zonefile_serial
    /\ num.journal_after = num.journal

\* C35: the flush handler calls zones_zonefile_sync only for a zone with
\* contents whose journal is in use; a call whose text dump or stat failed
\* returns an error, and whenever the handler returns anything but
\* KNOT_EOK zonefile_serial and the DIRTY flags of the journal are what
\* they were; after a call that returned KNOT_EOK zonefile_serial is the
\* SOA serial of the contents and no journal entry is DIRTY.
C35_SyncOnlyAfterDump ==
    FlushReturned =>
       /\ num.called => (num.contents # 0 /\ journal_is_used(num.journal))
       /\ (num.called /\ num.dump # "ok"
             /\ num.zonefile_serial # num.contents) => num.ret # "KNOT_EOK"
       /\ num.ret # "KNOT_EOK" => FlushChangedNothing
       /\ (num.called /\ num.ret = "KNOT_EOK") =>
             /\ num.zonefile_serial_after = num.contents
             /\ ~HasDirty(num.journal_after)

\* a flush that wrote the zonefile and cleaned a journal with DIRTY entries
C35_Witness ==
    /\ FlushReturned
    /\ num.called
    /\ num.ret = "KNOT_EOK"
    /\ num.wrote
    /\ HasDirty(num.journal)
    /\ num.zonefile_serial # num.contents
    /\ num.zonefile_serial_after = num.contents
    /\ ~HasDirty(num.journal_after)

\* C40: a firing of the flush timer on a zone that is marked DISCARDED
\* returns without writing the zonefile, without touching the journal or
\* zonefile_serial and without scheduling the flush event again.
C40_DiscardedTickDoesNothing ==
    (FlushReturned /\ "ZONE_DISCARDED" \in num.flags) =>
       /\ ~num.called
       /\ ~num.wrote
       /\ FlushChangedNothing
       /\ ~num.ixfr_dbsync.armed

(***************************************************************************)
(* SpecMerge: zones_merge_and_store_changesets on the changesets of the    *)
(* zonefile diff and of the signing.  Each list is NULL / empty (<<>>) or  *)
(* holds the one changeset zones_do_diff_and_sign put into it.             *)
(* knot_changeset_is_empty and knot_changeset_merge are not part of        *)
(* zones.c.                                                                *)
(***************************************************************************)
MaxMergeSerial == 4
MergeSerials == 1 .. MaxMergeSerial
\* a changeset: its serials, the serial of its ending SOA, and the RRs it
\* removes or adds
DiffChangesets ==
    {ch \in [serial_from : MergeSerials, serial_to : MergeSerials,
             soa_to : MergeSerials, rrs : {{}, {"A"}}] :
        ch.serial_from < ch.serial_to /\ ch.soa_to = ch.serial_to}
SecChangesets ==
    {ch \in [serial_from : MergeSerials, serial_to : MergeSerials,
             soa_to : MergeSerials, rrs : {{}, {"RRSIG"}}] :
        ch.serial_from < ch.serial_to /\ ch.soa_to = ch.serial_to}
ListsOf(S) == {<<>>} \cup {<<ch>> : ch \in S}
StoreOutcomes == {"KNOT_EOK", "KNOT_EBUSY", "KNOT_ERROR"}

knot_changeset_is_empty(ch) == ch.rrs = {}

\* zones_changesets_empty on a list whose changeset can be empty
zones_changesets_empty_head(chs) ==
    IF chs = <<>> THEN TRUE ELSE knot_changeset_is_empty(Head(chs))

\* knot_changeset_merge(ch1, ch2): ch1 takes over the RRs and the end of ch2
knot_changeset_merge(ch1, ch2) ==
    [ch1 EXCEPT !.rrs = @ \cup ch2.rrs, !.serial_to = ch2.serial_to,
                !.soa_to = ch2.soa_to]

\* zones_store_changesets_begin_and_store as its caller sees it: the
\* changesets are in the journal and the transaction is open, or an error
NothingStored(ret) == [ret |-> ret, stored |-> <<>>, transaction |-> FALSE]
begin_and_store(chgsets, outcome) ==
    IF zones_changesets_empty_head(chgsets) THEN NothingStored("KNOT_EINVAL")
    ELSE IF outcome # "KNOT_EOK" THEN NothingStored(outcome)
    ELSE [ret |-> "KNOT_EOK", stored |-> chgsets, transaction |-> TRUE]

\* A mutant that stores the changeset of the diff without the signatures.
zones_merge_and_store_unmerged(diff_chs, sec_chs, merged, outcome) ==
    IF zones_changesets_empty_head(diff_chs)
       /\ zones_changesets_empty_head(sec_chs)
    THEN NothingStored("KNOT_EOK")
    ELSE IF zones_changesets_empty_head(sec_chs)
    THEN begin_and_store(diff_chs, outcome)
    ELSE IF zones_changesets_empty_head(diff_chs)
    THEN begin_and_store(sec_chs, outcome)
    ELSE IF ~merged THEN NothingStored("KNOT_ENOMEM")
    ELSE begin_and_store(diff_chs, outcome)

\* zones_merge_and_store_changesets; 'merged' is whether
\* knot_changeset_merge succeeded, 'outcome' what the store does
zones_merge_and_store_changesets(diff_chs, sec_chs, merged, outcome) ==
    IF zones_changesets_empty_head(diff_chs)
       /\ zones_changesets_empty_head(sec_chs)
    THEN NothingStored("KNOT_EOK")
    ELSE IF zones_changesets_empty_head(sec_chs)
    THEN begin_and_store(diff_chs, outcome)
    ELSE IF zones_changesets_empty_head(diff_chs)
    THEN begin_and_store(sec_chs, outcome)
    ELSE IF ~merged THEN NothingStored("KNOT_ENOMEM")
    ELSE begin_and_store(
             <<knot_changeset_merge(diff_chs[Len(diff_chs)],
                                    sec_chs[Len(sec_chs)])>>, outcome)

\* the changeset of the signing starts where the changeset of the diff
\* ends (the assert of zones_merge_and_store_changesets)
InitMerge ==
    /\ num \in {n \in [fn : {"zones_merge_and_store_changesets"},
                       diff_chs : ListsOf(DiffChangesets),
                       sec_chs : ListsOf(SecChangesets),
                       done : {FALSE}, ret : {"none"}, stored : {<<>>},
                       transaction : {FALSE}] :
                  (n.diff_chs # <<>> /\ n.sec_chs # <<>>) =>
                     n.diff_chs[1].serial_to = n.sec_chs[1].serial_from}
    /\ NotNumUnused

MergeAndStoreCall ==
    /\ num.fn = "zones_merge_and_store_changesets"
    /\ ~num.done
    /\ \E merged \in BOOLEAN, outcome \in StoreOutcomes :
          LET r == zones_merge_and_store_changesets(num.diff_chs,
                                                    num.sec_chs, merged,
                                                    outcome)
          IN num' = [num EXCEPT !.done = TRUE, !.ret = r.ret,
                                !.stored = r.stored,
                                !.transaction = r.transaction]
    /\ UNCHANGED notNumVars

NextMerge == MergeAndStoreCall

SpecMerge == InitMerge /\ [][NextMerge]_vars

MergeReturned == num.fn = "zones_merge_and_store_changesets" /\ num.done
DiffEmpty == zones_changesets_empty_head(num.diff_chs)
SecEmpty == zones_changesets_empty_head(num.sec_chs)

\* C33: with both changesets empty zones_merge_and_store_changesets
\* returns KNOT_EOK, stores nothing and opens no transaction; when it
\* returns KNOT_EOK with exactly one of them empty it has stored the other
\* one as it is; with both non-empty (the signing changeset starting at
\* the serial the diff ends at) it has stored one changeset that starts at
\* the serial_from of the diff, ends at the serial_to and the soa_to of
\* the signing changeset and holds the RRs of both.
C33_MergedChangesetStored ==
    MergeReturned =>
       /\ (DiffEmpty /\ SecEmpty) =>
             /\ num.ret = "KNOT_EOK"
             /\ num.stored = <<>>
             /\ ~num.transaction
       /\ (num.ret = "KNOT_EOK" /\ ~DiffEmpty /\ SecEmpty) =>
             num.stored = num.diff_chs
       /\ (num.ret = "KNOT_EOK" /\ DiffEmpty /\ ~SecEmpty) =>
             num.stored = num.sec_chs
       /\ (num.ret = "KNOT_EOK" /\ ~DiffEmpty /\ ~SecEmpty) =>
             /\ Len(num.stored) = 1
             /\ num.stored[1].serial_from = num.diff_chs[1].serial_from
             /\ num.stored[1].serial_to = num.sec_chs[1].serial_to
             /\ num.stored[1].soa_to = num.sec_chs[1].soa_to
             /\ num.stored[1].rrs
                   = num.diff_chs[1].rrs \cup num.sec_chs[1].rrs
             /\ num.transaction

\* a diff 1 -> 2 and a signing changeset 2 -> 3 stored as one, 1 -> 3
C33_Witness ==
    /\ MergeReturned
    /\ num.ret = "KNOT_EOK"
    /\ ~DiffEmpty
    /\ ~SecEmpty
    /\ Len(num.stored) = 1
    /\ num.stored[1].serial_from = 1
    /\ num.stored[1].serial_to = 3
    /\ num.stored[1].rrs = {"A", "RRSIG"}

(***************************************************************************)
(* SpecDnssecEv: the firings of the DNSSEC timer, zones_dnssec_ev.  The    *)
(* signer (knot_dnssec_zone_sign) is not part of zones.c: it fails or      *)
(* succeeds and leaves in *refresh_at the moment of the next signing, or   *)
(* 0 when it set none.                                                     *)
(***************************************************************************)
MaxFirings == 3
\* where zones_dnssec_sign can end: no memory before the signer ran, the
\* signer failed, the signatures could not be stored and applied, success
SignOutcomes == {"nomem", "sign", "store", "ok"}
\* the moments the signer asks for, seconds after the clock
RefreshAfter == {1, 3600, 86400}

\* zones_dnssec_sign(zone, force, &refresh_at): 'at' is what the signer
\* wrote to *refresh_at, which is 0 until the signer runs
zones_dnssec_sign(outcome, at) ==
    CASE outcome = "nomem" -> [ret |-> "KNOT_ENOMEM", refresh_at |-> 0]
      [] outcome = "sign"  -> [ret |-> "KNOT_ERROR", refresh_at |-> at]
      [] outcome = "store" -> [ret |-> "KNOT_ERROR", refresh_at |-> at]
      [] OTHER             -> [ret |-> "KNOT_EOK", refresh_at |-> at]

\* zones_dnssec_ev: sign, then zones_schedule_dnssec when the signer set
\* a moment; its result replaces the result of the signing
zones_dnssec_ev(timer, now, outcome, at, ub) ==
    LET s == zones_dnssec_sign(outcome, at) IN
    IF s.refresh_at # 0
    THEN LET r == zones_schedule_dnssec(timer, now, s.refresh_at, ub)
         IN [ret |-> r.ret, timer |-> r.timer, sign |-> s.ret]
    ELSE [ret |-> s.ret, timer |-> timer, sign |-> s.ret]

InitDnssecEv ==
    /\ \E now \in UnixTimes :
          \E d \in RefreshAfter :
             dnssec = [timer |-> evsched_schedule(NullTimer, now,
                                                  Mul1000U32(d)),
                       now |-> now, calls |-> 0, call |-> NoCall32]
    /\ NotDnssecUnused

\* The DNSSEC timer is due: the scheduler takes the event off its queue
\* and runs zones_dnssec_ev.  A failing signer may have set a moment or
\* not.
DnssecEv ==
    /\ dnssec.calls < MaxFirings
    /\ dnssec.timer.exists
    /\ dnssec.timer.armed
    /\ \E outcome \in SignOutcomes, ub \in {"wrap", "trap"} :
       \E at \in IF outcome = "nomem" THEN {0}
                 ELSE IF outcome = "sign"
                 THEN {0} \cup {dnssec.timer.tv_sec + d : d \in RefreshAfter}
                 ELSE {dnssec.timer.tv_sec + d : d \in RefreshAfter} :
          LET now == dnssec.timer.tv_sec
              fired == evsched_cancel(dnssec.timer)
              r == zones_dnssec_ev(fired, now, outcome, at, ub)
          IN dnssec' =
                [dnssec EXCEPT
                   !.timer = r.timer, !.now = now, !.calls = @ + 1,
                   !.call = [fn |-> "zones_dnssec_ev", t |-> at,
                             before |-> fired, ret |-> r.ret,
                             warned |-> FALSE, cancelled |-> FALSE,
                             sign |-> r.sign]]
    /\ UNCHANGED notDnssecVars

NextDnssecEv == DnssecEv

SpecDnssecEv == InitDnssecEv /\ [][NextDnssecEv]_vars

\* C37: after every firing of zones_dnssec_ev on a zone whose DNSSEC timer
\* exists the timer is armed again, whether the signing succeeded or
\* failed, and the handler returns an error whenever the signing failed.
C37_TimerRearmedAndFailureReported ==
    dnssec.call.fn = "zones_dnssec_ev" =>
       /\ dnssec.timer.armed
       /\ dnssec.call.sign # "KNOT_EOK" => dnssec.call.ret # "KNOT_EOK"

(***************************************************************************)
(* SpecFake: zones_process_update_auth and its temporary zone.  The        *)
(* contents of the zone carry a back-link to their zone; create_fake_zone  *)
(* points it at a freshly allocated zone while the update is signed.       *)
(* num.backlink is zone->contents->zone, num.fake the zone created by the  *)
(* call in progress, num.leaked the fake zones of earlier calls that were  *)
(* never freed, num.new_contents the contents the update was applied to.   *)
(***************************************************************************)
MaxUpdates == 2

\* create_fake_zone(zone): NULL without memory, else a zone that has
\* stolen the contents: fake->contents->zone = fake
create_fake_zone(n, nomem) ==
    IF nomem THEN n
    ELSE [n EXCEPT !.fake = "live", !.backlink = "fake"]

\* zone_free(&fake_zone); zone->contents->zone = zone;
FakeZoneUndone(n) == [n EXCEPT !.fake = "freed", !.backlink = "zone"]

\* xfrin_rollback_update(zone->contents, &new_contents, changes)
RolledBack(n) == [n EXCEPT !.new_contents = "rolled_back"]

\* return ret
AuthReturn(n, ret) == [n EXCEPT !.pc = "done", !.ret = ret]

InitFake ==
    /\ num \in [fn : {"zones_process_update_auth"},
                dnssec_enable : BOOLEAN, pc : {"idle"}, calls : {0},
                backlink : {"zone"}, fake : {"none"}, leaked : {0},
                new_contents : {"none"}, new_signatures : {FALSE},
                transaction : {FALSE}, contents : {1}, ret : {"none"}]
    /\ NotNumUnused

\* Up to create_fake_zone: the changesets structure, knot_ns_process_update
\* and, with DNSSEC, the changesets of the signing.
AuthBegin ==
    /\ num.fn = "zones_process_update_auth"
    /\ num.pc \in {"idle", "done"}
    /\ num.calls < MaxUpdates
    /\ LET n == [num EXCEPT !.calls = @ + 1, !.new_contents = "none",
                            !.new_signatures = FALSE,
                            !.transaction = FALSE, !.ret = "none",
                            !.leaked = @ + (IF num.fake = "live" THEN 1
                                            ELSE 0),
                            !.fake = "none"]
       IN \E r \in {"nochgsets", "nochgset", "error", "noop", "applied",
                    "nosec"} :
             num' = CASE r = "nochgsets" -> AuthReturn(n, "KNOT_EOK")
                      [] r = "nochgset" -> AuthReturn(n, "KNOT_ENOMEM")
                      [] r = "error" -> AuthReturn(n, "KNOT_ERROR")
                      [] r = "noop" -> AuthReturn(n, "KNOT_EOK")
                      [] r = "nosec" ->
                            IF n.dnssec_enable
                            THEN AuthReturn(
                                   RolledBack([n EXCEPT
                                                 !.new_contents = "applied"]),
                                   "KNOT_ENOMEM")
                            ELSE [n EXCEPT !.pc = "fake",
                                           !.new_contents = "applied"]
                      [] OTHER -> [n EXCEPT !.pc = "fake",
                                            !.new_contents = "applied"]
    /\ UNCHANGED notNumVars

\* create_fake_zone and its failure path
AuthCreateFake ==
    /\ num.fn = "zones_process_update_auth"
    /\ num.pc = "fake"
    /\ \E nomem \in BOOLEAN :
          LET n == create_fake_zone(num, nomem) IN
          num' = IF nomem THEN AuthReturn(RolledBack(n), "KNOT_ENOMEM")
                 ELSE [n EXCEPT !.pc = "sign"]
    /\ UNCHANGED notNumVars

\* With DNSSEC the update is signed on the fake zone; a failure undoes the
\* update and the fake zone.
AuthSign ==
    /\ num.fn = "zones_process_update_auth"
    /\ num.pc = "sign"
    /\ IF num.dnssec_enable
       THEN \E ok \in BOOLEAN :
               num' = IF ok THEN [num EXCEPT !.pc = "store"]
                      ELSE AuthReturn(FakeZoneUndone(RolledBack(num)),
                                      "KNOT_ERROR")
       ELSE num' = [num EXCEPT !.pc = "store"]
    /\ UNCHANGED notNumVars

\* zones_merge_and_store_changesets and its failure path
AuthStore ==
    /\ num.fn = "zones_process_update_auth"
    /\ num.pc = "store"
    /\ \E outcome \in StoreOutcomes :
          num' = IF outcome = "KNOT_EOK"
                 THEN [num EXCEPT !.pc = "apply", !.transaction = TRUE]
                 ELSE AuthReturn(FakeZoneUndone(RolledBack(num)), outcome)
    /\ UNCHANGED notNumVars

\* The signatures are applied and the next signing replanned, or the NSEC3
\* pointers adjusted; then the fake zone is freed and the back-link put
\* back.  The three failure paths return before that.
AuthApply ==
    /\ num.fn = "zones_process_update_auth"
    /\ num.pc = "apply"
    /\ \E new_signatures \in IF num.dnssec_enable THEN BOOLEAN
                             ELSE {FALSE} :
       \E r \in IF new_signatures THEN {"apply", "replan", "ok"}
                ELSE {"adjust", "ok"} :
          LET n == [num EXCEPT !.new_signatures = new_signatures,
                               !.transaction =
                                  IF r = "ok" THEN @ ELSE FALSE]
          IN num' = CASE r = "apply" -> AuthReturn(n, "KNOT_ERROR")
                      [] r = "replan" -> AuthReturn(n, "KNOT_EAGAIN")
                      [] r = "adjust" ->
                            AuthReturn(RolledBack(n), "KNOT_ERROR")
                      [] OTHER -> [FakeZoneUndone(n) EXCEPT !.pc = "commit"]
    /\ UNCHANGED notNumVars

\* zones_store_changesets_commit of an open transaction
AuthCommit ==
    /\ num.fn = "zones_process_update_auth"
    /\ num.pc = "commit"
    /\ IF num.transaction
       THEN \E ok \in BOOLEAN :
               num' = IF ok THEN [num EXCEPT !.pc = "switch",
                                             !.transaction = FALSE]
                      ELSE AuthReturn(RolledBack(
                                        [num EXCEPT !.transaction = FALSE]),
                                      "KNOT_ERROR")
       ELSE num' = [num EXCEPT !.pc = "switch"]
    /\ UNCHANGED notNumVars

\* xfrin_switch_zone: the new contents, whose back-link is the zone, are
\* installed, or the update is rolled back
AuthSwitch ==
    /\ num.fn = "zones_process_update_auth"
    /\ num.pc = "switch"
    /\ \E ok \in BOOLEAN :
          num' = IF ok
                 THEN AuthReturn([num EXCEPT !.contents = @ + 1,
                                             !.new_contents = "installed",
                                             !.backlink = "zone"],
                                 "KNOT_EOK")
                 ELSE AuthReturn(RolledBack(num), "KNOT_ERROR")
    /\ UNCHANGED notNumVars

NextFake ==
    \/ AuthBegin
    \/ AuthCreateFake
    \/ AuthSign
    \/ AuthStore
    \/ AuthApply
    \/ AuthCommit
    \/ AuthSwitch

SpecFake == InitFake /\ [][NextFake]_vars

\* C38: whenever zones_process_update_auth has returned, the back-link of
\* the installed contents is the real zone, the fake zone it created is
\* freed, and after a failure the contents the update was applied to are
\* rolled back.
C38_FakeZoneUndone ==
    (num.fn = "zones_process_update_auth" /\ num.pc = "done") =>
       /\ num.backlink = "zone"
       /\ num.fake # "live"
       /\ (num.ret # "KNOT_EOK" /\ num.new_contents # "none") =>
             num.new_contents = "rolled_back"

====
